---------------------------- MODULE Spec2Model ----------------------------
(***************************************************************************)
(* Model of the self-update engine: AbstractUpdateService and its Windows  *)
(* and macOS drivers (Win32UpdateService, DarwinUpdateService), and the    *)
(* UpdateChannel / UpdateChannelClient bridge.                             *)
(*                                                                         *)
(* Every action is one run-to-completion step of the main process' event   *)
(* loop: a public method up to its first await, or one promise             *)
(* continuation / event handler.                                           *)
(***************************************************************************)
EXTENDS Integers, Sequences, FiniteSets, TLC

(***************************************************************************)
(* Bounds of the model.                                                    *)
(***************************************************************************)
\* feed versions are 1..MaxVersion
MaxVersion == 2
\* check cycles (feed request, native check, download) that may be in flight
MaxCycles == 2
\* installer processes that may be alive at once
MaxChildren == 2
\* assets a release handed to the parser may list
MaxAssets == 2
\* UI-side clients of the update channel
NumClients == 1
\* state messages that may be in flight to one client
MaxInbox == 2

Clients == 1..NumClients

(***************************************************************************)
(* Strings.  A string is a sequence of tokens, each token standing for the *)
(* run of characters it spells, so that startsWith, endsWith, includes and *)
(* substring are computed on it as the code computes them.                 *)
(***************************************************************************)
Digits == <<"1", "2", "3", "4">>

\* the number a numeric token spells, 0 when it is not numeric
NumberOf(tok) ==
    IF \E i \in 1..Len(Digits) : Digits[i] = tok
    THEN CHOOSE i \in 1..Len(Digits) : Digits[i] = tok
    ELSE 0

startsWith(s, prefix) ==
    /\ Len(prefix) <= Len(s)
    /\ SubSeq(s, 1, Len(prefix)) = prefix

endsWith(s, suffix) ==
    /\ Len(suffix) <= Len(s)
    /\ SubSeq(s, Len(s) - Len(suffix) + 1, Len(s)) = suffix

includes(s, part) ==
    \E i \in 1..(Len(s) + 1) :
        /\ i + Len(part) - 1 <= Len(s)
        /\ SubSeq(s, i, i + Len(part) - 1) = part

\* s.substring(1)
substring1(s) == SubSeq(s, 2, Len(s))

\* the versions a feed may announce: "1" .. "MaxVersion"
Versions == { <<Digits[i]>> : i \in 1..MaxVersion }
\* _applySpecificUpdate: version 'unknown'
UnknownVersion == <<"unknown">>
\* the version of the running product (productService.version)
CurrentVersion == <<"1">>
\* an absent string
Undefined == <<>>

(***************************************************************************)
(* Configuration: what the services read from the environment, the product *)
(* and the settings.  It never changes while the process runs.             *)
(***************************************************************************)
Win32Configs ==
    { c \in [ platform : {"win32"},
              disableUpdates : BOOLEAN,
              updateUrl : {"none", "vendor", "github"},
              commit : BOOLEAN,
              updateMode : {"none", "manual", "start", "default"},
              feedOk : {TRUE},
              target : {"user", "system"},
              isAdmin : BOOLEAN,
              updateType : {"setup", "archive"},
              fastUpdates : BOOLEAN ] :
        \* isAdmin is only asked for user installs (short-circuit &&)
        c.target = "system" => ~c.isAdmin }

DarwinConfigs ==
    [ platform : {"darwin"},
      disableUpdates : BOOLEAN,
      updateUrl : {"none", "vendor", "github"},
      commit : BOOLEAN,
      updateMode : {"none", "manual", "start", "default"},
      feedOk : BOOLEAN,
      target : {"none"},
      isAdmin : {FALSE},
      updateType : {"archive"},
      fastUpdates : {FALSE} ]

Configs == Win32Configs \cup DarwinConfigs

(***************************************************************************)
(* Update descriptors (IUpdate).  version, productVersion and url are      *)
(* strings, absent (or empty: both are falsy) when Undefined; sha256hash   *)
(* is a digest, Undefined when absent.                                     *)
(***************************************************************************)
Hashes == { <<"h1">>, <<"h2">> }

IUpdate(version, productVersion, url, sha256hash) ==
    [ version |-> version, productVersion |-> productVersion,
      url |-> url, sha256hash |-> sha256hash ]

NoUpdate == IUpdate(Undefined, Undefined, Undefined, Undefined)

(***************************************************************************)
(* The GitHub Releases feed: parseGitHubReleaseToUpdate and                *)
(* findAssetForPlatform.                                                   *)
(***************************************************************************)
GitHubAsset(name, browser_download_url, digest) ==
    [ name |-> name, browser_download_url |-> browser_download_url, digest |-> digest ]

\* what Array.find and the parser return when there is nothing: null
NoAsset == GitHubAsset(Undefined, Undefined, Undefined)

GitHubRelease(tag_name, prerelease, assets) ==
    [ tag_name |-> tag_name, prerelease |-> prerelease, assets |-> assets ]

NoRelease == GitHubRelease(Undefined, FALSE, <<>>)

\* assets.find(pred): the first asset of the list that satisfies pred
Find(assets, pred(_)) ==
    IF \E i \in 1..Len(assets) : pred(assets[i])
    THEN assets[CHOOSE i \in 1..Len(assets) :
                    /\ pred(assets[i])
                    /\ \A j \in 1..(i - 1) : ~pred(assets[j])]
    ELSE NoAsset

\* s.replace(tok, ''): the first occurrence of tok removed
replace(s, tok) ==
    IF \E i \in 1..Len(s) : s[i] = tok
    THEN LET i == CHOOSE k \in 1..Len(s) : s[k] = tok /\ \A j \in 1..(k - 1) : s[j] # tok
         IN  SubSeq(s, 1, i - 1) \o SubSeq(s, i + 1, Len(s))
    ELSE s

\* the number of a version string the semver library accepts ("2", "v2"),
\* 0 for a string it throws on
SemverNumber(v) ==
    IF Len(v) = 1 THEN NumberOf(v[1])
    ELSE IF Len(v) = 2 /\ v[1] = "v" THEN NumberOf(v[2])
    ELSE 0

SemverValid(v) == SemverNumber(v) > 0

\* semver gt(a, b), where both are valid
semverGt(a, b) == SemverNumber(a) > SemverNumber(b)

IsUserSetupExact(asset) == asset.name = <<"SIID", "UserSetup", ".exe">>
IsUserSetup(asset) == includes(asset.name, <<"UserSetup", ".exe">>)
IsSystemSetupExact(asset) == asset.name = <<"SIID", "SystemSetup", ".exe">>
IsSystemSetup(asset) == includes(asset.name, <<"SystemSetup", ".exe">>)
IsExe(asset) == endsWith(asset.name, <<".exe">>) /\ ~endsWith(asset.name, <<".sha256">>)
IsTarGz(asset) == endsWith(asset.name, <<".tar", ".gz">>)
IsDmg(asset) == endsWith(asset.name, <<".dmg">>)

\* faulty variant: the archive rules applied whatever the platform is
findAssetForPlatformAnyPlatform(assets, platform, target) ==
    LET userAsset == IF Find(assets, IsUserSetupExact) # NoAsset
                     THEN Find(assets, IsUserSetupExact)
                     ELSE Find(assets, IsUserSetup)
        systemAsset == IF Find(assets, IsSystemSetupExact) # NoAsset
                       THEN Find(assets, IsSystemSetupExact)
                       ELSE Find(assets, IsSystemSetup)
        named == IF target = "user" THEN userAsset ELSE systemAsset
        win == IF ~startsWith(platform, <<"win32">>) THEN NoAsset
               ELSE IF named # NoAsset THEN named
               ELSE Find(assets, IsExe)
    IN  IF win # NoAsset THEN win
        ELSE IF Find(assets, IsTarGz) # NoAsset THEN Find(assets, IsTarGz)
        ELSE Find(assets, IsDmg)

findAssetForPlatform(assets, platform, target) ==
    LET userAsset == IF Find(assets, IsUserSetupExact) # NoAsset
                     THEN Find(assets, IsUserSetupExact)
                     ELSE Find(assets, IsUserSetup)
        systemAsset == IF Find(assets, IsSystemSetupExact) # NoAsset
                       THEN Find(assets, IsSystemSetupExact)
                       ELSE Find(assets, IsSystemSetup)
        named == IF target = "user" THEN userAsset ELSE systemAsset
        win == IF ~startsWith(platform, <<"win32">>) THEN NoAsset
               ELSE IF named # NoAsset THEN named
               ELSE Find(assets, IsExe)
        linux == IF includes(platform, <<"linux">>) THEN Find(assets, IsTarGz) ELSE NoAsset
        darwin == IF includes(platform, <<"darwin">>) THEN Find(assets, IsDmg) ELSE NoAsset
    IN  IF win # NoAsset THEN win
        ELSE IF linux # NoAsset THEN linux
        ELSE darwin

\* the parser handing on the digest as it is published
parseGitHubReleaseToUpdateKeepsPrefix(release, platform, target, currentVersion) ==
    LET asset == findAssetForPlatform(release.assets, platform, target)
        version == IF startsWith(release.tag_name, <<"v">>)
                   THEN substring1(release.tag_name)
                   ELSE release.tag_name
    IN  IF release.prerelease THEN NoUpdate
        ELSE IF asset = NoAsset THEN NoUpdate
        ELSE IF ~(SemverValid(version) /\ SemverValid(currentVersion)) THEN NoUpdate
        ELSE IF ~semverGt(version, currentVersion) THEN NoUpdate
        ELSE IUpdate(release.tag_name, version, asset.browser_download_url, asset.digest)

\* the parser without the test of the prerelease flag
parseGitHubReleaseToUpdateWithPrereleases(release, platform, target, currentVersion) ==
    LET asset == findAssetForPlatform(release.assets, platform, target)
        version == IF startsWith(release.tag_name, <<"v">>)
                   THEN substring1(release.tag_name)
                   ELSE release.tag_name
    IN  IF asset = NoAsset THEN NoUpdate
        ELSE IF ~(SemverValid(version) /\ SemverValid(currentVersion)) THEN NoUpdate
        ELSE IF ~semverGt(version, currentVersion) THEN NoUpdate
        ELSE IUpdate(release.tag_name, version, asset.browser_download_url,
                     replace(asset.digest, "sha256:"))

\* the parser with a gate that lets the running version through
parseGitHubReleaseToUpdateNotOlder(release, platform, target, currentVersion) ==
    LET asset == findAssetForPlatform(release.assets, platform, target)
        version == IF startsWith(release.tag_name, <<"v">>)
                   THEN substring1(release.tag_name)
                   ELSE release.tag_name
    IN  IF release.prerelease THEN NoUpdate
        ELSE IF asset = NoAsset THEN NoUpdate
        ELSE IF ~(SemverValid(version) /\ SemverValid(currentVersion)) THEN NoUpdate
        ELSE IF semverGt(currentVersion, version) THEN NoUpdate
        ELSE IUpdate(release.tag_name, version, asset.browser_download_url,
                     replace(asset.digest, "sha256:"))

\* null is NoUpdate
parseGitHubReleaseToUpdate(release, platform, target, currentVersion) ==
    LET asset == findAssetForPlatform(release.assets, platform, target)
        version == IF startsWith(release.tag_name, <<"v">>)
                   THEN substring1(release.tag_name)
                   ELSE release.tag_name
    IN  IF release.prerelease THEN NoUpdate
        ELSE IF asset = NoAsset THEN NoUpdate
        ELSE IF ~(SemverValid(version) /\ SemverValid(currentVersion)) THEN NoUpdate
        ELSE IF ~semverGt(version, currentVersion) THEN NoUpdate
        ELSE IUpdate(release.tag_name, version, asset.browser_download_url,
                     replace(asset.digest, "sha256:"))

\* the variant of the parser without the version gate
parseGitHubReleaseToUpdateUngated(release, platform, target) ==
    LET asset == findAssetForPlatform(release.assets, platform, target)
        version == IF startsWith(release.tag_name, <<"v">>)
                   THEN substring1(release.tag_name)
                   ELSE release.tag_name
    IN  IF release.prerelease THEN NoUpdate
        ELSE IF asset = NoAsset THEN NoUpdate
        ELSE IUpdate(release.tag_name, version, asset.browser_download_url,
                     replace(asset.digest, "sha256:"))

(***************************************************************************)
(* Inputs of the parser: releases of up to MaxAssets assets, the platform   *)
(* string `${process.platform}-${process.arch}`, productService.target and *)
(* productService.version.                                                 *)
(***************************************************************************)
AssetNames ==
    { <<"SIID", "UserSetup", ".exe">>,
      <<"SIID", "-x64", "UserSetup", ".exe">>,
      <<"SIID", "-x64", "UserSetup", ".exe", ".sha256">>,
      <<"SIID", "SystemSetup", ".exe">>,
      <<"SIID", "-x64", "SystemSetup", ".exe">>,
      <<"SIID", ".exe">>,
      <<"SIID", ".tar", ".gz">>,
      <<"SIID", ".dmg">> }

\* every name is published at two places, one of them with a digest
ParserAssets ==
    { GitHubAsset(name, <<"https://x/", "a">>, Undefined) : name \in AssetNames }
    \cup { GitHubAsset(name, <<"https://x/", "b">>, <<"sha256:", "h1">>) : name \in AssetNames }

ParserAssetLists ==
    UNION { [1..n -> ParserAssets] : n \in 0..MaxAssets }

\* tags with and without the leading v, and one that is no version
ParserTags ==
    Versions \cup { <<"v">> \o v : v \in Versions } \cup { <<"v">> \o UnknownVersion }

ParserReleases ==
    { GitHubRelease(tag, pre, assets) :
        tag \in ParserTags, pre \in BOOLEAN, assets \in ParserAssetLists }

ParserPlatforms ==
    { <<"win32", "-x64">>, <<"linux", "-x64">>, <<"darwin", "-arm64">>, <<"freebsd", "-x64">> }

ParserTargets == { "user", "system", "none" }

\* a call of the parser: its arguments, the variant called ("none" before
\* the call, "gated", "ungated"), the asset selected and the result
ParseCall(release, platform, target, currentVersion, variant, asset, update) ==
    [ release |-> release, platform |-> platform, target |-> target,
      currentVersion |-> currentVersion, variant |-> variant,
      asset |-> asset, update |-> update ]

NoParse == ParseCall(NoRelease, Undefined, "none", CurrentVersion, "none", NoAsset, NoUpdate)

(***************************************************************************)
(* State (common/update.ts): the tagged union and its constructors.        *)
(***************************************************************************)
Uninitialized == [type |-> "Uninitialized"]
Disabled(reason) == [type |-> "Disabled", reason |-> reason]
Idle(updateType, error) == [type |-> "Idle", updateType |-> updateType, error |-> error]
CheckingForUpdates(explicit) == [type |-> "CheckingForUpdates", explicit |-> explicit]
AvailableForDownload(update) == [type |-> "AvailableForDownload", update |-> update]
Downloading == [type |-> "Downloading"]
Downloaded(update) == [type |-> "Downloaded", update |-> update]
Updating(update) == [type |-> "Updating", update |-> update]
Ready(update) == [type |-> "Ready", update |-> update]

StateTypes == { "Uninitialized", "Disabled", "Idle", "CheckingForUpdates",
                "AvailableForDownload", "Downloading", "Downloaded",
                "Updating", "Ready" }

(***************************************************************************)
(* Files of the cache directory.  A file has a path (kind, version) and    *)
(* the digest of its content.                                              *)
(***************************************************************************)
File(kind, version) == [kind |-> kind, version |-> version]
NoFile == File("undefined", Undefined)
\* a package handed to _applySpecificUpdate lives outside the cache
ExternalPackage == File("external", UnknownVersion)

\* an entry of the cache directory
Entry(path, digest) == [path |-> path, digest |-> digest]
\* the digest of a file whose download broke off
Partial == <<"partial">>

IAvailableUpdate(packagePath, updateFilePath) ==
    [packagePath |-> packagePath, updateFilePath |-> updateFilePath]
NoAvailableUpdate == IAvailableUpdate(NoFile, NoFile)

VARIABLES
    cfg,              \* the configuration
    state,            \* AbstractUpdateService._state
    url,              \* AbstractUpdateService.url is set
    initPc,           \* where initialize() is
    availableUpdate,  \* Win32UpdateService.availableUpdate
    cycles,           \* the check cycles in flight
    applying,         \* doApplyUpdate calls between Updating and spawn
    children,         \* installer processes alive
    mutexActive,      \* the installer's ready mutex is held
    polls,            \* updates whose pollUntil loop is running
    cache,            \* the files of cachePath
    timer,            \* the pending timer of the automatic check
    quit,             \* lifecycleMainService.quit(true)
    installs,         \* the platform install action has run
    handlers,         \* the macOS native updater events are listened to
    clients,          \* UpdateChannelClient instances
    subscribed,       \* clients whose listen('onStateChange') was served
    inbox,            \* messages in flight to each client
    fired,            \* the states _onStateChange fired in the last step
    lastCall,         \* the public operation called in the last step
    parsed            \* the last call of parseGitHubReleaseToUpdate

vars == << cfg, state, url, initPc, availableUpdate, cycles, applying, children,
           mutexActive, polls, cache, timer, quit, installs, handlers, clients,
           subscribed, inbox, fired, lastCall, parsed >>


(***************************************************************************)
(* Check cycles in flight.  phase is where the promise chain of            *)
(* doCheckForUpdates stands: "request" (the feed request), "native" (the   *)
(* macOS native updater is checking or downloading), "cleanup",            *)
(* "download", "verify", "finish" (the Windows download chain).            *)
(***************************************************************************)
Cycle(phase, explicit, byTimer, update) ==
    [ phase |-> phase, explicit |-> explicit, byTimer |-> byTimer, update |-> update ]
NoCycle == Cycle("free", FALSE, FALSE, NoUpdate)

Slots == 1..MaxCycles
HasFreeSlot == \E k \in Slots : cycles[k] = NoCycle
FreeSlot == CHOOSE k \in Slots : cycles[k] = NoCycle /\ \A j \in 1..(k - 1) : cycles[j] # NoCycle
InFlight == { k \in Slots : cycles[k] # NoCycle }

\* messages of the channel to a client
Message(kind, st) == [kind |-> kind, state |-> st]

\* an UpdateChannelClient: how far its constructor's two requests have got,
\* its _state, and whether an onStateChange event has reached it
Client(phase, st, heard) == [phase |-> phase, state |-> st, heard |-> heard]

\* the public operation the last step called, and what it returned
Call(op, result) == [op |-> op, result |-> result]
NoCall == Call("none", "void")

(***************************************************************************)
(* What the feeds may answer.                                              *)
(***************************************************************************)
Url == <<"https://x/", "setup">>

\* asJson of the vendor feed: null on 204, else the body as it is.  The
\* server offers versions newer than the running one, with their hash, and a
\* body may lack its url, its version or its product version
VendorResponses ==
    {NoUpdate}
    \cup { IUpdate(v, v, Undefined, Undefined) : v \in Versions \ {CurrentVersion} }
    \cup { IUpdate(Undefined, v, Url, <<"h1">>) : v \in Versions \ {CurrentVersion} }
    \cup { IUpdate(v, Undefined, Url, <<"h1">>) : v \in Versions \ {CurrentVersion} }
    \cup { IUpdate(v, v, Url, <<"h1">>) : v \in Versions \ {CurrentVersion} }

AssetLists ==
    { <<>>,
      << GitHubAsset(<<"SIID", "UserSetup", ".exe">>, Url, <<"sha256:", "h1">>),
         GitHubAsset(<<"SIID", "SystemSetup", ".exe">>, Url, Undefined) >>,
      << GitHubAsset(<<"SIID", ".dmg">>, Url, Undefined) >> }

GitHubResponses ==
    { GitHubRelease(<<"v">> \o v, pre, assets) :
        v \in Versions, pre \in BOOLEAN, assets \in AssetLists }

\* update.enableWindowsBackgroundUpdates, productService.target, ...
platformOf(c) ==
    IF c.platform = "win32"
    THEN <<"win32", "-x64">> \o
         (IF c.updateType = "archive" THEN <<"-archive">>
          ELSE IF c.target = "user" THEN <<"-user">> ELSE <<>>)
    ELSE <<"darwin", "-x64">>

isGitHub(c) == c.updateUrl = "github"

(***************************************************************************)
(* AbstractUpdateService                                                   *)
(***************************************************************************)
Alive == quit # "quitting"

\* faulty variant: setState assigns the state and fires no event
SetStateSilent(states) ==
    /\ state' = states[Len(states)]
    /\ fired' = <<>>
    /\ inbox' = inbox

\* setState, called once for every state of `states`, in order
SetState(states) ==
    /\ \A c \in subscribed : Len(inbox[c]) + Len(states) <= MaxInbox
    /\ state' = states[Len(states)]
    /\ fired' = states
    /\ inbox' = [ c \in Clients |->
                    IF c \in subscribed
                    THEN inbox[c] \o [ i \in 1..Len(states) |-> Message("event", states[i]) ]
                    ELSE inbox[c] ]

\* a step that never calls setState
NoSetState ==
    /\ state' = state
    /\ fired' = <<>>
    /\ inbox' = inbox

getUpdateType(c) == c.updateType

getProductQuality(updateMode) == IF updateMode = "none" THEN Undefined ELSE <<"stable">>

createUpdateURL(c) == IF isGitHub(c) THEN <<"github", "/latest">> ELSE <<"vendor", "/api/update">>

\* Win32UpdateService.buildUpdateFeedUrl always yields a string;
\* DarwinUpdateService.buildUpdateFeedUrl yields undefined when setFeedURL throws
buildUpdateFeedUrl(c) ==
    IF c.platform = "darwin" /\ ~c.feedOk THEN Undefined ELSE createUpdateURL(c)

\* faulty variant: the update mode is looked at before the configuration
initializeStateModeFirst(c) ==
    IF c.disableUpdates THEN Disabled("DisabledByEnvironment")
    ELSE IF getProductQuality(c.updateMode) = Undefined THEN Disabled("ManuallyDisabled")
    ELSE IF c.updateUrl = "none" \/ ~c.commit THEN Disabled("MissingConfiguration")
    ELSE IF buildUpdateFeedUrl(c) = Undefined THEN Disabled("InvalidConfiguration")
    ELSE Idle(getUpdateType(c), "none")

\* the state AbstractUpdateService.initialize() sets
initializeState(c) ==
    IF c.disableUpdates THEN Disabled("DisabledByEnvironment")
    ELSE IF c.updateUrl = "none" \/ ~c.commit THEN Disabled("MissingConfiguration")
    ELSE IF getProductQuality(c.updateMode) = Undefined THEN Disabled("ManuallyDisabled")
    ELSE IF buildUpdateFeedUrl(c) = Undefined THEN Disabled("InvalidConfiguration")
    ELSE Idle(getUpdateType(c), "none")

\* faulty variant: mode 'start' schedules like mode 'default'
initializeTimerStartRecurs(c) ==
    IF c.updateMode = "manual" THEN "none"
    ELSE "recurring"

\* the timer initialize() leaves behind once the state is Idle
initializeTimer(c) ==
    IF c.updateMode = "manual" THEN "none"
    ELSE IF c.updateMode = "start" THEN "once"
    ELSE "recurring"

\* AbstractUpdateService.initialize(): it has no await, so it is one step
AbstractInitialize ==
    /\ SetState(<<initializeState(cfg)>>)
    /\ url' = IF initializeState(cfg).type = "Idle"
                 \/ (initializeState(cfg).type = "Disabled"
                     /\ initializeState(cfg).reason = "InvalidConfiguration")
              THEN buildUpdateFeedUrl(cfg)
              ELSE url
    /\ timer' = IF initializeState(cfg).type = "Idle" THEN initializeTimer(cfg) ELSE timer

\* The constructor's lifecycleMainService.when(AfterWindowOpen).finally(...)
\* Win32UpdateService.initialize awaits isAdmin for a user install;
\* DarwinUpdateService.initialize registers the native handlers afterwards.
Initialize ==
    /\ initPc = "start"
    /\ Alive
    /\ IF cfg.platform = "win32" /\ cfg.target = "user"
       THEN /\ initPc' = "admin"
            /\ NoSetState
            /\ UNCHANGED <<url, timer, handlers>>
       ELSE /\ initPc' = "done"
            /\ AbstractInitialize
            /\ handlers' = (cfg.platform = "darwin")
    /\ lastCall' = NoCall
    /\ UNCHANGED <<cfg, parsed, availableUpdate, cycles, applying, children, mutexActive,
                   polls, cache, quit, installs, clients, subscribed>>

\* Win32UpdateService.initialize after `await isAdmin`
Win32InitializeAdmin ==
    /\ initPc = "admin"
    /\ Alive
    /\ initPc' = "done"
    /\ IF cfg.isAdmin
       THEN /\ SetState(<<Disabled("RunningAsAdmin")>>)
            /\ UNCHANGED <<url, timer>>
       ELSE AbstractInitialize
    /\ lastCall' = NoCall
    /\ UNCHANGED <<cfg, parsed, availableUpdate, cycles, applying, children, mutexActive,
                   polls, cache, quit, installs, handlers, clients, subscribed>>

Win32doCheckForUpdates(explicit, byTimer) ==
    IF url = Undefined
    THEN NoSetState /\ UNCHANGED cycles
    ELSE /\ HasFreeSlot
         /\ SetState(<<CheckingForUpdates(explicit)>>)
         /\ cycles' = [cycles EXCEPT ![FreeSlot] = Cycle("request", explicit, byTimer, NoUpdate)]

DarwindoCheckForUpdates(explicit, byTimer) ==
    IF url = Undefined
    THEN NoSetState /\ UNCHANGED cycles
    ELSE /\ HasFreeSlot
         /\ SetState(<<CheckingForUpdates(explicit)>>)
         /\ cycles' = [cycles EXCEPT ![FreeSlot] =
                         Cycle(IF isGitHub(cfg) THEN "request" ELSE "native",
                               explicit, byTimer, NoUpdate)]

doCheckForUpdates(explicit, byTimer) ==
    IF cfg.platform = "win32"
    THEN Win32doCheckForUpdates(explicit, byTimer)
    ELSE DarwindoCheckForUpdates(explicit, byTimer)

\* faulty variant: checkForUpdates without the test of the state
checkForUpdatesUnguarded(explicit, byTimer) == doCheckForUpdates(explicit, byTimer)

checkForUpdates(explicit, byTimer) ==
    IF state.type # "Idle"
    THEN NoSetState /\ UNCHANGED cycles
    ELSE doCheckForUpdates(explicit, byTimer)

\* a caller in the process of the service checks
CallCheckForUpdates(explicit) ==
    /\ Alive
    /\ lastCall' = Call("checkForUpdates", "void")
    /\ checkForUpdates(explicit, FALSE)
    /\ UNCHANGED <<cfg, parsed, url, initPc, availableUpdate, applying, children, mutexActive,
                   polls, cache, timer, quit, installs, handlers, clients, subscribed>>

\* setTimeout(() => this.checkForUpdates(false), 30s) in mode 'start';
\* scheduleCheckForUpdates otherwise: timeout, checkForUpdates(false), and
\* when that promise resolves the next timeout
TimerFires ==
    /\ Alive
    /\ timer # "none"
    /\ checkForUpdates(FALSE, TRUE)
    /\ timer' = IF timer = "recurring" THEN "recurring" ELSE "none"
    /\ lastCall' = NoCall
    /\ UNCHANGED <<cfg, parsed, url, initPc, availableUpdate, applying, children, mutexActive,
                   polls, cache, quit, installs, handlers, clients, subscribed>>


(***************************************************************************)
(* Win32UpdateService: the promise chain of doCheckForUpdates               *)
(***************************************************************************)
\* faulty variant: the test without `!update.url`
ActionableWithoutUrl(update) ==
    /\ update # NoUpdate
    /\ update.version # Undefined
    /\ update.productVersion # Undefined

\* `!update || !update.url || !update.version || !update.productVersion` is false
Actionable(update) ==
    /\ update # NoUpdate
    /\ update.url # Undefined
    /\ update.version # Undefined
    /\ update.productVersion # Undefined

\* getUpdatePackagePath(version), the download path and the flag file
PackagePath(version) == File("exe", version)
DownloadPath(version) == File("tmp", version)
FlagPath(version) == File("flag", version)

Exists(files, path) == \E e \in files : e.path = path
\* a file written or renamed into place replaces what the path held
WriteFile(files, path, digest) == { e \in files : e.path # path } \cup { Entry(path, digest) }
Unlink(files, path) == { e \in files : e.path # path }
DigestOf(files, path) == (CHOOSE e \in files : e.path = path).digest

\* faulty variant: a filter that keeps the package of every version
CleanupKeepsPackages(files, exceptVersion) ==
    { e \in files : exceptVersion # Undefined /\ e.path.kind = "exe" }

\* cleanup(exceptVersion): the files the filter keeps
CleanupKeeps(files, exceptVersion) ==
    { e \in files : exceptVersion # Undefined /\ e.path = PackagePath(exceptVersion) }

\* checksum(path, expected) resolves
checksum(files, path, sha256hash) ==
    /\ Exists(files, path)
    /\ DigestOf(files, path) = sha256hash

\* the rejection handler at the end of the chain
\* faulty variant: the chain without its rejection handler
Win32CheckErrorUnhandled(k) ==
    /\ NoSetState
    /\ cycles' = [cycles EXCEPT ![k] = NoCycle]

Win32CheckError(k) ==
    /\ SetState(<<Idle(getUpdateType(cfg), IF cycles[k].explicit THEN "err" ELSE "none")>>)
    /\ cycles' = [cycles EXCEPT ![k] = NoCycle]

Win32Update(response) ==
    IF isGitHub(cfg)
    THEN parseGitHubReleaseToUpdate(response, platformOf(cfg), cfg.target, CurrentVersion)
    ELSE response

Win32Responses == IF isGitHub(cfg) THEN GitHubResponses ELSE VendorResponses

\* the feed request fails, or asJson throws on a malformed body
Win32FeedFails(k) ==
    /\ Alive /\ cfg.platform = "win32"
    /\ cycles[k].phase = "request"
    /\ Win32CheckError(k)
    /\ lastCall' = NoCall
    /\ UNCHANGED <<cfg, parsed, url, initPc, availableUpdate, applying, children, mutexActive,
                   polls, cache, timer, quit, installs, handlers, clients, subscribed>>

\* .then(response => ...) up to the cleanup
Win32FeedAnswers(k, response) ==
    /\ Alive /\ cfg.platform = "win32"
    /\ cycles[k].phase = "request"
    /\ LET update == Win32Update(response)
       IN  IF ~Actionable(update)
           THEN /\ SetState(<<Idle(getUpdateType(cfg), "none")>>)
                /\ cycles' = [cycles EXCEPT ![k] = NoCycle]
           ELSE IF getUpdateType(cfg) = "archive"
           THEN /\ SetState(<<AvailableForDownload(update)>>)
                /\ cycles' = [cycles EXCEPT ![k] = NoCycle]
           ELSE /\ SetState(<<Downloading>>)
                /\ cycles' = [cycles EXCEPT ![k] =
                                Cycle("cleanup", cycles[k].explicit, cycles[k].byTimer, update)]
    /\ lastCall' = NoCall
    /\ UNCHANGED <<cfg, parsed, url, initPc, availableUpdate, applying, children, mutexActive,
                   polls, cache, timer, quit, installs, handlers, clients, subscribed>>

\* the files an unlink of the cleanup may fail on: none, or one of the cache
UnlinkFailures == { {} } \cup { {e} : e \in cache }


\* cleanup(update.version), where an unlink may fail and is ignored, then
\* getUpdatePackagePath and exists
Win32Cleanup(k, undeleted) ==
    /\ Alive /\ cfg.platform = "win32"
    /\ cycles[k].phase = "cleanup"
    /\ LET version == cycles[k].update.version
           keeps == CleanupKeeps(cache, version)
       IN  /\ undeleted \subseteq cache \ keeps
           /\ cache' = keeps \cup undeleted
           /\ cycles' = [cycles EXCEPT ![k].phase =
                           IF Exists(cache', PackagePath(version))
                           THEN "finish" ELSE "download"]
    /\ NoSetState
    /\ lastCall' = NoCall
    /\ UNCHANGED <<cfg, parsed, url, initPc, availableUpdate, applying, children, mutexActive,
                   polls, timer, quit, installs, handlers, clients, subscribed>>

\* the download request fails, or writeFile fails and leaves a partial file
Win32DownloadFails(k, written) ==
    /\ Alive /\ cfg.platform = "win32"
    /\ cycles[k].phase = "download"
    /\ cache' = IF written
                THEN WriteFile(cache, DownloadPath(cycles[k].update.version), Partial)
                ELSE cache
    /\ Win32CheckError(k)
    /\ lastCall' = NoCall
    /\ UNCHANGED <<cfg, parsed, url, initPc, availableUpdate, applying, children, mutexActive,
                   polls, timer, quit, installs, handlers, clients, subscribed>>

\* request and writeFile: the body, whose digest is `digest`, is in the .tmp file
Win32Download(k, digest) ==
    /\ Alive /\ cfg.platform = "win32"
    /\ cycles[k].phase = "download"
    /\ cache' = WriteFile(cache, DownloadPath(cycles[k].update.version), digest)
    /\ cycles' = [cycles EXCEPT ![k].phase = "verify"]
    /\ NoSetState
    /\ lastCall' = NoCall
    /\ UNCHANGED <<cfg, parsed, url, initPc, availableUpdate, applying, children, mutexActive,
                   polls, timer, quit, installs, handlers, clients, subscribed>>

\* faulty variant: the hash of the update is never looked at
hasHashNever(update) == FALSE

\* `update.sha256hash ? () => checksum(downloadPath, update.sha256hash) : () => undefined`
hasHash(update) == update.sha256hash # Undefined

\* checksum (when the update has a hash) and rename
Win32Verify(k) ==
    /\ Alive /\ cfg.platform = "win32"
    /\ cycles[k].phase = "verify"
    /\ LET update == cycles[k].update
           tmp == DownloadPath(update.version)
       IN  IF \/ ~Exists(cache, tmp)
              \/ (hasHash(update) /\ ~checksum(cache, tmp, update.sha256hash))
           THEN /\ Win32CheckError(k)
                /\ cache' = cache
           ELSE /\ cache' = WriteFile(Unlink(cache, tmp), PackagePath(update.version),
                                      DigestOf(cache, tmp))
                /\ cycles' = [cycles EXCEPT ![k].phase = "finish"]
                /\ NoSetState
    /\ lastCall' = NoCall
    /\ UNCHANGED <<cfg, parsed, url, initPc, availableUpdate, applying, children, mutexActive,
                   polls, timer, quit, installs, handlers, clients, subscribed>>

\* the states doApplyUpdate sets before its first await, called in state `cur`
Win32doApplyUpdate(cur, available) ==
    IF cur.type # "Downloaded" THEN <<>>
    ELSE IF available = NoAvailableUpdate THEN <<>>
    ELSE <<Updating(cur.update)>>

\* faulty variant: without fast updates nothing follows Downloaded
Win32AfterDownloadedWaits(update, available) ==
    IF cfg.fastUpdates
    THEN IF cfg.target = "user"
         THEN Win32doApplyUpdate(Downloaded(update), available)
         ELSE <<>>
    ELSE <<>>

\* what follows setState(Downloaded(update)) in the chain and in
\* _applySpecificUpdate
Win32AfterDownloaded(update, available) ==
    IF cfg.fastUpdates
    THEN IF cfg.target = "user"
         THEN Win32doApplyUpdate(Downloaded(update), available)
         ELSE <<>>
    ELSE <<Ready(update)>>

\* .then(packagePath => ...)
Win32Finish(k) ==
    /\ Alive /\ cfg.platform = "win32"
    /\ cycles[k].phase = "finish"
    /\ LET update == cycles[k].update
           available == IAvailableUpdate(PackagePath(update.version), NoFile)
           after == Win32AfterDownloaded(update, available)
       IN  /\ availableUpdate' = available
           /\ SetState(<<Downloaded(update)>> \o after)
           /\ applying' = IF after # <<>> /\ after[1].type = "Updating"
                          THEN applying \cup {update} ELSE applying
    /\ cycles' = [cycles EXCEPT ![k] = NoCycle]
    /\ lastCall' = NoCall
    /\ UNCHANGED <<cfg, parsed, url, initPc, children, mutexActive, polls, cache, timer, quit,
                   installs, handlers, clients, subscribed>>


(***************************************************************************)
(* Win32UpdateService: apply, the installer process and its ready mutex    *)
(***************************************************************************)
\* doApplyUpdate after `await this.cachePath`: with no availableUpdate the
\* assignment of updateFilePath throws and the call ends there; otherwise the
\* flag path is recorded, and the call rejects when the flag file cannot be
\* written, else the installer is spawned and pollUntil started
Win32ApplyResumes(update, flagWritten) ==
    /\ Alive /\ cfg.platform = "win32"
    /\ update \in applying
    /\ applying' = applying \ {update}
    /\ IF availableUpdate = NoAvailableUpdate
       THEN UNCHANGED <<availableUpdate, cache, children, polls>>
       ELSE /\ availableUpdate' =
                  [availableUpdate EXCEPT !.updateFilePath = FlagPath(update.version)]
            /\ IF flagWritten
               THEN /\ children < MaxChildren
                    /\ cache' = WriteFile(cache, FlagPath(update.version), <<"flag">>)
                    /\ children' = children + 1
                    /\ polls' = polls \cup {update}
               ELSE UNCHANGED <<cache, children, polls>>
    /\ NoSetState
    /\ lastCall' = NoCall
    /\ UNCHANGED <<cfg, parsed, url, initPc, cycles, mutexActive, timer, quit, installs,
                   handlers, clients, subscribed>>

\* the installer creates the `-ready` mutex
InstallerReady ==
    /\ Alive /\ cfg.platform = "win32"
    /\ children > 0
    /\ ~mutexActive
    /\ mutexActive' = TRUE
    /\ NoSetState
    /\ lastCall' = NoCall
    /\ UNCHANGED <<cfg, parsed, url, initPc, availableUpdate, cycles, applying, children, polls,
                   cache, timer, quit, installs, handlers, clients, subscribed>>

\* faulty variant: an exit handler that forgets the update and keeps the state
Win32ChildExitKeepsState ==
    /\ Alive /\ cfg.platform = "win32"
    /\ children > 0
    /\ children' = children - 1
    /\ mutexActive' = (mutexActive /\ children' > 0)
    /\ availableUpdate' = NoAvailableUpdate
    /\ NoSetState
    /\ lastCall' = NoCall
    /\ UNCHANGED <<cfg, parsed, url, initPc, cycles, applying, polls, cache, timer, quit,
                   installs, handlers, clients, subscribed>>

\* child.once('exit', ...): a mutex lives no longer than the processes holding it
Win32ChildExit ==
    /\ Alive /\ cfg.platform = "win32"
    /\ children > 0
    /\ children' = children - 1
    /\ mutexActive' = (mutexActive /\ children' > 0)
    /\ availableUpdate' = NoAvailableUpdate
    /\ SetState(<<Idle(getUpdateType(cfg), "none")>>)
    /\ lastCall' = NoCall
    /\ UNCHANGED <<cfg, parsed, url, initPc, cycles, applying, polls, cache, timer, quit,
                   installs, handlers, clients, subscribed>>

\* pollUntil(() => mutex.isActive(readyMutexName)).then(() => setState(Ready(update)))
Win32PollUntil(update) ==
    /\ Alive /\ cfg.platform = "win32"
    /\ update \in polls
    /\ mutexActive
    /\ polls' = polls \ {update}
    /\ SetState(<<Ready(update)>>)
    /\ lastCall' = NoCall
    /\ UNCHANGED <<cfg, parsed, url, initPc, availableUpdate, cycles, applying, children,
                   mutexActive, cache, timer, quit, installs, handlers, clients,
                   subscribed>>

(***************************************************************************)
(* The other public operations                                             *)
(***************************************************************************)
\* faulty variant: downloadUpdate without the test of the state
downloadUpdateUnguarded ==
    IF cfg.platform = "win32" THEN SetState(<<Idle(getUpdateType(cfg), "none")>>)
    ELSE NoSetState

\* downloadUpdate(): Win32UpdateService.doDownloadUpdate opens the url and
\* goes back to Idle; DarwinUpdateService inherits the empty doDownloadUpdate
downloadUpdate ==
    IF state.type # "AvailableForDownload" THEN NoSetState
    ELSE IF cfg.platform = "win32" THEN SetState(<<Idle(getUpdateType(cfg), "none")>>)
    ELSE NoSetState

CallDownloadUpdate ==
    /\ Alive
    /\ lastCall' = Call("downloadUpdate", "void")
    /\ downloadUpdate
    /\ UNCHANGED <<cfg, parsed, url, initPc, availableUpdate, cycles, applying, children,
                   mutexActive, polls, cache, timer, quit, installs, handlers, clients,
                   subscribed>>

\* faulty variant: applyUpdate and doApplyUpdate take Ready for Downloaded
applyUpdateFromReady ==
    IF state.type \notin {"Downloaded", "Ready"} THEN NoSetState /\ UNCHANGED applying
    ELSE IF cfg.platform = "win32" /\ availableUpdate # NoAvailableUpdate
    THEN /\ SetState(<<Updating(state.update)>>)
         /\ applying' = applying \cup {state.update}
    ELSE NoSetState /\ UNCHANGED applying

\* applyUpdate(): DarwinUpdateService inherits the empty doApplyUpdate
applyUpdate ==
    IF state.type # "Downloaded" THEN NoSetState /\ UNCHANGED applying
    ELSE IF cfg.platform = "win32" /\ Win32doApplyUpdate(state, availableUpdate) # <<>>
    THEN /\ SetState(Win32doApplyUpdate(state, availableUpdate))
         /\ applying' = applying \cup {state.update}
    ELSE NoSetState /\ UNCHANGED applying

CallApplyUpdate ==
    /\ Alive
    /\ lastCall' = Call("applyUpdate", "void")
    /\ applyUpdate
    /\ UNCHANGED <<cfg, parsed, url, initPc, availableUpdate, cycles, children, mutexActive,
                   polls, cache, timer, quit, installs, handlers, clients, subscribed>>

\* faulty variant: quitAndInstall without the test of the state
quitAndInstallUnguarded == quit' = "pending"

\* quitAndInstall(): asks the lifecycle service to quit
quitAndInstall ==
    IF state.type # "Ready" THEN quit' = quit
    ELSE quit' = "pending"

CallQuitAndInstall ==
    /\ Alive
    /\ lastCall' = Call("quitAndInstall", "void")
    /\ quitAndInstall
    /\ NoSetState
    /\ UNCHANGED <<cfg, parsed, url, initPc, availableUpdate, cycles, applying, children,
                   mutexActive, polls, cache, timer, installs, handlers, clients,
                   subscribed>>

\* Win32UpdateService.doQuitAndInstall: removes the flag file the installer
\* waits on (unlinkSync throws when it is gone), or runs the installer
Win32doQuitAndInstall ==
    IF state.type # "Ready" \/ availableUpdate = NoAvailableUpdate
    THEN UNCHANGED <<cache, installs>>
    ELSE IF availableUpdate.updateFilePath # NoFile
    THEN IF Exists(cache, availableUpdate.updateFilePath)
         THEN /\ cache' = Unlink(cache, availableUpdate.updateFilePath)
              /\ installs' = TRUE
         ELSE UNCHANGED <<cache, installs>>
    ELSE /\ installs' = TRUE
         /\ cache' = cache

\* DarwinUpdateService.doQuitAndInstall: electron.autoUpdater.quitAndInstall()
DarwindoQuitAndInstall ==
    /\ installs' = TRUE
    /\ cache' = cache

doQuitAndInstall ==
    IF cfg.platform = "win32" THEN Win32doQuitAndInstall ELSE DarwindoQuitAndInstall

\* faulty variant: the continuation of quit(true) without the test of vetod
QuitResolvesIgnoresVeto(vetod) ==
    /\ Alive
    /\ quit = "pending"
    /\ quit' = IF vetod THEN "vetoed" ELSE "quitting"
    /\ doQuitAndInstall
    /\ NoSetState
    /\ lastCall' = NoCall
    /\ UNCHANGED <<cfg, parsed, url, initPc, availableUpdate, cycles, applying, children,
                   mutexActive, polls, timer, handlers, clients, subscribed>>

\* lifecycleMainService.quit(true).then(vetod => ...): after a veto the
\* process goes on running ("vetoed"), otherwise it is on its way out
QuitResolves(vetod) ==
    /\ Alive
    /\ quit = "pending"
    /\ IF vetod
       THEN /\ quit' = "vetoed"
            /\ UNCHANGED <<cache, installs>>
       ELSE /\ quit' = "quitting"
            /\ doQuitAndInstall
    /\ NoSetState
    /\ lastCall' = NoCall
    /\ UNCHANGED <<cfg, parsed, url, initPc, availableUpdate, cycles, applying, children,
                   mutexActive, polls, timer, handlers, clients, subscribed>>

\* IRelaunchOptions, as far as handleRelaunch looks at them
RelaunchOptions == [addArgs : BOOLEAN, removeArgs : BOOLEAN]

\* fs.unlinkSync(this.availableUpdate.updateFilePath) throws: the flag file is gone
UnlinkThrows ==
    /\ cfg.platform = "win32"
    /\ availableUpdate.updateFilePath # NoFile
    /\ ~Exists(cache, availableUpdate.updateFilePath)

\* the second test of handleRelaunch: Win32UpdateService also asks for an
\* availableUpdate
RelaunchPending ==
    /\ state.type = "Ready"
    /\ cfg.platform = "win32" => availableUpdate # NoAvailableUpdate

\* faulty variant: handleRelaunch without its test of the options
handleRelaunchIgnoresArgs(options) ==
    /\ Alive
    /\ IF ~RelaunchPending
       THEN /\ lastCall' = Call("handleRelaunch", "false")
            /\ UNCHANGED <<cache, installs>>
       ELSE /\ doQuitAndInstall
            /\ lastCall' = Call("handleRelaunch", IF UnlinkThrows THEN "throws" ELSE "true")
    /\ NoSetState
    /\ UNCHANGED <<cfg, parsed, url, initPc, availableUpdate, cycles, applying, children,
                   mutexActive, polls, timer, quit, handlers, clients, subscribed>>

\* handleRelaunch(options) of Win32UpdateService and DarwinUpdateService,
\* the relaunch handler of the lifecycle service: false, or doQuitAndInstall
\* and true; an unlinkSync that throws inside doQuitAndInstall ends the call
handleRelaunch(options) ==
    /\ Alive
    /\ IF options.addArgs \/ options.removeArgs \/ ~RelaunchPending
       THEN /\ lastCall' = Call("handleRelaunch", "false")
            /\ UNCHANGED <<cache, installs>>
       ELSE /\ doQuitAndInstall
            /\ lastCall' = Call("handleRelaunch", IF UnlinkThrows THEN "throws" ELSE "true")
    /\ NoSetState
    /\ UNCHANGED <<cfg, parsed, url, initPc, availableUpdate, cycles, applying, children,
                   mutexActive, polls, timer, quit, handlers, clients, subscribed>>

\* faulty variant: the override without its test of the state
applySpecificUpdateUnguarded ==
    IF cfg.platform # "win32"
    THEN NoSetState /\ UNCHANGED <<availableUpdate, applying>>
    ELSE LET update == IUpdate(UnknownVersion, UnknownVersion, Undefined, Undefined)
             available == IAvailableUpdate(ExternalPackage, NoFile)
             after == Win32AfterDownloaded(update, available)
         IN  /\ availableUpdate' = available
             /\ SetState(<<Downloading, Downloaded(update)>> \o after)
             /\ applying' = IF after # <<>> /\ after[1].type = "Updating"
                            THEN applying \cup {update} ELSE applying

\* _applySpecificUpdate(packagePath): only Win32UpdateService overrides it
applySpecificUpdate ==
    IF cfg.platform # "win32" \/ state.type # "Idle"
    THEN NoSetState /\ UNCHANGED <<availableUpdate, applying>>
    ELSE LET update == IUpdate(UnknownVersion, UnknownVersion, Undefined, Undefined)
             available == IAvailableUpdate(ExternalPackage, NoFile)
             after == Win32AfterDownloaded(update, available)
         IN  /\ availableUpdate' = available
             /\ SetState(<<Downloading, Downloaded(update)>> \o after)
             /\ applying' = IF after # <<>> /\ after[1].type = "Updating"
                            THEN applying \cup {update} ELSE applying

CallApplySpecificUpdate ==
    /\ Alive
    /\ lastCall' = Call("_applySpecificUpdate", "void")
    /\ applySpecificUpdate
    /\ UNCHANGED <<cfg, parsed, url, initPc, cycles, children, mutexActive, polls, cache, timer,
                   quit, installs, handlers, clients, subscribed>>

\* faulty variant: isLatestVersion without its test of the url
isLatestVersionWithoutUrl(failed, malformed, release, status204) ==
    IF cfg.updateMode = "none" THEN "false"
    ELSE IF isGitHub(cfg)
    THEN IF failed \/ malformed THEN "undefined"
         ELSE IF release.prerelease THEN "false"
         ELSE "true"
    ELSE IF failed THEN "undefined"
         ELSE IF status204 THEN "true" ELSE "false"

\* isLatestVersion() reaches requestService.request only past the tests of
\* the url and of the update mode
isLatestVersionRequests == url # Undefined /\ cfg.updateMode # "none"

\* isLatestVersion(): `failed` is a request that throws, `malformed` a body
\* that is not JSON (only the GitHub path parses it), `release` the parsed
\* GitHub answer, `status204` the status code of the vendor server's answer
isLatestVersion(failed, malformed, release, status204) ==
    IF url = Undefined THEN "undefined"
    ELSE IF cfg.updateMode = "none" THEN "false"
    ELSE IF isGitHub(cfg)
    THEN IF failed \/ malformed THEN "undefined"
         ELSE IF release.prerelease THEN "false"
         ELSE LET latestVersion == IF startsWith(release.tag_name, <<"v">>)
                                   THEN substring1(release.tag_name)
                                   ELSE release.tag_name
              IN  IF ~(SemverValid(latestVersion) /\ SemverValid(CurrentVersion))
                  THEN "undefined"
                  ELSE IF ~semverGt(latestVersion, CurrentVersion) THEN "true" ELSE "false"
    ELSE IF failed THEN "undefined"
         ELSE IF status204 THEN "true" ELSE "false"

\* the answers isLatestVersion may get, <<failed, malformed, release,
\* status204>>: the vendor server's are told apart by failure and status
\* code, those of the GitHub API by failure, body and release
VendorLatestAnswers ==
    { <<TRUE, FALSE, NoRelease, FALSE>>, <<FALSE, TRUE, NoRelease, FALSE>>,
      <<FALSE, FALSE, NoRelease, TRUE>>, <<FALSE, FALSE, NoRelease, FALSE>> }

GitHubLatestAnswers ==
    { <<TRUE, FALSE, NoRelease, FALSE>>, <<FALSE, TRUE, NoRelease, FALSE>>,
      <<FALSE, FALSE, NoRelease, FALSE>> }
    \cup { <<FALSE, FALSE, GitHubRelease(<<"v">> \o v, FALSE, <<>>), FALSE>> :
             v \in Versions \cup {UnknownVersion} }
    \cup { <<FALSE, FALSE, GitHubRelease(<<"v">> \o UnknownVersion, TRUE, <<>>), FALSE>> }

LatestAnswers == IF isGitHub(cfg) THEN GitHubLatestAnswers ELSE VendorLatestAnswers

\* faulty variant: isLatestVersion runs a check of its own
CallIsLatestVersionChecks(answer) ==
    /\ Alive
    /\ lastCall' = Call("isLatestVersion",
                        isLatestVersion(answer[1], answer[2], answer[3], answer[4]))
    /\ IF state.type = "Idle" THEN SetState(<<CheckingForUpdates(TRUE)>>) ELSE NoSetState
    /\ UNCHANGED <<cfg, parsed, url, initPc, availableUpdate, cycles, applying, children,
                   mutexActive, polls, cache, timer, quit, installs, handlers, clients,
                   subscribed>>

CallIsLatestVersion(answer) ==
    /\ Alive
    /\ lastCall' = Call("isLatestVersion",
                        isLatestVersion(answer[1], answer[2], answer[3], answer[4]))
    /\ NoSetState
    /\ UNCHANGED <<cfg, parsed, url, initPc, availableUpdate, cycles, applying, children,
                   mutexActive, polls, cache, timer, quit, installs, handlers, clients,
                   subscribed>>

(***************************************************************************)
(* DarwinUpdateService.  The native updater (electron.autoUpdater) is not  *)
(* part of the sources: its events are inputs that may arrive whenever the *)
(* handlers are registered, and the handlers decide what they act on.      *)
(***************************************************************************)
\* the GitHub request of doCheckForUpdates fails
DarwinFeedFails(k) ==
    /\ Alive /\ cfg.platform = "darwin"
    /\ cycles[k].phase = "request"
    /\ SetState(<<Idle("archive", "err")>>)
    /\ cycles' = [cycles EXCEPT ![k] = NoCycle]
    /\ lastCall' = NoCall
    /\ UNCHANGED <<cfg, parsed, url, initPc, availableUpdate, applying, children, mutexActive,
                   polls, cache, timer, quit, installs, handlers, clients, subscribed>>

\* ... or answers
DarwinFeedAnswers(k, response) ==
    /\ Alive /\ cfg.platform = "darwin"
    /\ cycles[k].phase = "request"
    /\ LET update == parseGitHubReleaseToUpdate(response, platformOf(cfg), cfg.target,
                                                CurrentVersion)
       IN  IF ~Actionable(update)
           THEN SetState(<<Idle("archive", "none")>>)
           ELSE SetState(<<AvailableForDownload(update)>>)
    /\ cycles' = [cycles EXCEPT ![k] = NoCycle]
    /\ lastCall' = NoCall
    /\ UNCHANGED <<cfg, parsed, url, initPc, availableUpdate, applying, children, mutexActive,
                   polls, cache, timer, quit, installs, handlers, clients, subscribed>>

\* the native updater's check ends with this event, when one is running
NativeCheckEnds ==
    IF \E k \in Slots : cycles[k].phase = "native"
    THEN cycles' = [cycles EXCEPT ![CHOOSE k \in Slots : cycles[k].phase = "native"] = NoCycle]
    ELSE cycles' = cycles

\* electron.autoUpdater 'error'
onError ==
    /\ Alive /\ handlers
    /\ SetState(<<Idle("archive",
                       IF state.type = "CheckingForUpdates" /\ state.explicit
                       THEN "err" ELSE "none")>>)
    /\ NativeCheckEnds
    /\ lastCall' = NoCall
    /\ UNCHANGED <<cfg, parsed, url, initPc, availableUpdate, applying, children, mutexActive,
                   polls, cache, timer, quit, installs, handlers, clients, subscribed>>

\* electron.autoUpdater 'update-available'
onUpdateAvailable ==
    /\ Alive /\ handlers
    /\ IF state.type # "CheckingForUpdates" THEN NoSetState
       ELSE SetState(<<Downloading>>)
    /\ lastCall' = NoCall
    /\ UNCHANGED <<cfg, parsed, url, initPc, availableUpdate, cycles, applying, children,
                   mutexActive, polls, cache, timer, quit, installs, handlers, clients,
                   subscribed>>

\* faulty variant: 'update-downloaded' is acted on in every state
onUpdateDownloadedUnguarded(update) ==
    /\ Alive /\ handlers
    /\ SetState(<<Downloaded(update), Ready(update)>>)
    /\ NativeCheckEnds
    /\ lastCall' = NoCall
    /\ UNCHANGED <<cfg, parsed, url, initPc, availableUpdate, applying, children, mutexActive,
                   polls, cache, timer, quit, installs, handlers, clients, subscribed>>

\* electron.autoUpdater 'update-downloaded'
onUpdateDownloaded(update) ==
    /\ Alive /\ handlers
    /\ IF state.type # "Downloading" THEN NoSetState
       ELSE SetState(<<Downloaded(update), Ready(update)>>)
    /\ NativeCheckEnds
    /\ lastCall' = NoCall
    /\ UNCHANGED <<cfg, parsed, url, initPc, availableUpdate, applying, children, mutexActive,
                   polls, cache, timer, quit, installs, handlers, clients, subscribed>>

\* electron.autoUpdater 'update-not-available'
onUpdateNotAvailable ==
    /\ Alive /\ handlers
    /\ IF state.type # "CheckingForUpdates" THEN NoSetState
       ELSE SetState(<<Idle("archive", "none")>>)
    /\ NativeCheckEnds
    /\ lastCall' = NoCall
    /\ UNCHANGED <<cfg, parsed, url, initPc, availableUpdate, applying, children, mutexActive,
                   polls, cache, timer, quit, installs, handlers, clients, subscribed>>

\* the update of an 'update-downloaded' event: version, productVersion, timestamp
NativeUpdates == { IUpdate(v, v, Undefined, Undefined) : v \in Versions }

(***************************************************************************)
(* The specification of the update service                                 *)
(***************************************************************************)
\* what an earlier run of the product may have left in the cache directory
\* of a setup install: nothing, or the packages of the versions, as they
\* were written then
InitialCaches(c) ==
    IF c.platform = "win32" /\ c.updateType = "setup"
    THEN { {},
           { Entry(PackagePath(IF isGitHub(c) THEN <<"v">> \o v ELSE v), <<"h2">>) :
               v \in Versions } }
    ELSE { {} }

ServiceInit ==
    /\ cfg \in Configs
    /\ state = Uninitialized
    /\ url = Undefined
    /\ initPc = "start"
    /\ availableUpdate = NoAvailableUpdate
    /\ cycles = [k \in Slots |-> NoCycle]
    /\ applying = {}
    /\ children = 0
    /\ mutexActive = FALSE
    /\ polls = {}
    /\ cache \in InitialCaches(cfg)
    /\ timer = "none"
    /\ quit = "none"
    /\ installs = FALSE
    /\ handlers = FALSE
    /\ clients = [c \in Clients |-> Client("absent", Uninitialized, FALSE)]
    /\ subscribed = {}
    /\ inbox = [c \in Clients |-> <<>>]
    /\ fired = <<>>
    /\ lastCall = NoCall

Init == ServiceInit /\ parsed = NoParse

Next ==
    \/ Initialize
    \/ Win32InitializeAdmin
    \/ \E explicit \in BOOLEAN : CallCheckForUpdates(explicit)
    \/ TimerFires
    \/ \E k \in Slots : Win32FeedFails(k)
    \/ \E k \in Slots : \E response \in Win32Responses : Win32FeedAnswers(k, response)
    \/ \E k \in Slots : \E undeleted \in UnlinkFailures : Win32Cleanup(k, undeleted)
    \/ \E k \in Slots : \E written \in BOOLEAN : Win32DownloadFails(k, written)
    \/ \E k \in Slots : \E digest \in Hashes : Win32Download(k, digest)
    \/ \E k \in Slots : Win32Verify(k)
    \/ \E k \in Slots : Win32Finish(k)
    \/ \E update \in applying : \E flagWritten \in BOOLEAN :
          Win32ApplyResumes(update, flagWritten)
    \/ InstallerReady
    \/ Win32ChildExit
    \/ \E update \in polls : Win32PollUntil(update)
    \/ CallDownloadUpdate
    \/ CallApplyUpdate
    \/ CallQuitAndInstall
    \/ \E vetod \in BOOLEAN : QuitResolves(vetod)
    \/ CallApplySpecificUpdate
    \/ \E answer \in LatestAnswers : CallIsLatestVersion(answer)
    \/ \E k \in Slots : DarwinFeedFails(k)
    \/ \E k \in Slots : \E response \in GitHubResponses : DarwinFeedAnswers(k, response)
    \/ onError
    \/ onUpdateAvailable
    \/ \E update \in NativeUpdates : onUpdateDownloaded(update)
    \/ onUpdateNotAvailable

Spec == Init /\ [][Next]_vars

(***************************************************************************)
(* The service as the relaunch handler of the lifecycle service            *)
(* (lifecycleMainService.setRelaunchHandler(this) in both constructors):   *)
(* a relaunch may ask it at any time.                                      *)
(***************************************************************************)
RelaunchNext ==
    \/ Next
    \/ \E options \in RelaunchOptions : handleRelaunch(options)

RelaunchSpec == Init /\ [][RelaunchNext]_vars

(***************************************************************************)
(* The state bridge: UpdateChannel in the process of the service, and      *)
(* UpdateChannelClient in the windows.  A channel delivers in order.       *)
(***************************************************************************)
\* the configurations the bridge is explored with: a Windows user setup
\* with background updates and a macOS build on the GitHub feed
BridgeConfigs ==
    { c \in Configs :
        /\ ~c.disableUpdates /\ c.commit /\ c.updateMode = "default" /\ c.feedOk
        /\ ~c.isAdmin
        /\ \/ c.platform = "win32" /\ c.target = "user" /\ c.updateType = "setup"
              /\ c.fastUpdates /\ c.updateUrl = "vendor"
           \/ c.platform = "darwin" /\ c.updateUrl = "github" }

\* new UpdateChannelClient(channel): _state is Uninitialized, and the
\* constructor sends listen('onStateChange') and call('_getInitialState')
ClientConnect(c) ==
    /\ clients[c].phase = "absent"
    /\ clients' = [clients EXCEPT ![c] = Client("listen", Uninitialized, FALSE)]
    /\ NoSetState
    /\ lastCall' = NoCall
    /\ UNCHANGED <<cfg, parsed, url, initPc, availableUpdate, cycles, applying, children,
                   mutexActive, polls, cache, timer, quit, installs, handlers,
                   subscribed>>

\* UpdateChannel.listen: the service's onStateChange from now on
ServerListen(c) ==
    /\ Alive
    /\ clients[c].phase = "listen"
    /\ clients' = [clients EXCEPT ![c].phase = "call"]
    /\ subscribed' = subscribed \cup {c}
    /\ NoSetState
    /\ lastCall' = NoCall
    /\ UNCHANGED <<cfg, parsed, url, initPc, availableUpdate, cycles, applying, children,
                   mutexActive, polls, cache, timer, quit, installs, handlers>>

\* faulty variant: the channel answers with the state of a new service
getInitialStateStale == Uninitialized

\* faulty variant: the channel answers with the state of a service at rest
getInitialStateIdle == Idle(getUpdateType(cfg), "none")

\* UpdateChannel.call('_getInitialState'): Promise.resolve(this.service.state)
getInitialState == state

ServerGetInitialState(c) ==
    /\ Alive
    /\ clients[c].phase = "call"
    /\ Len(inbox[c]) < MaxInbox
    /\ clients' = [clients EXCEPT ![c].phase = "served"]
    /\ inbox' = [inbox EXCEPT ![c] = Append(@, Message("initial", getInitialState))]
    /\ state' = state
    /\ fired' = <<>>
    /\ lastCall' = NoCall
    /\ UNCHANGED <<cfg, parsed, url, initPc, availableUpdate, cycles, applying, children,
                   mutexActive, polls, cache, timer, quit, installs, handlers,
                   subscribed>>

\* faulty variant: the client takes its state from the answer alone
ClientReceiveIgnoresEvents(c) ==
    /\ inbox[c] # <<>>
    /\ inbox' = [inbox EXCEPT ![c] = Tail(@)]
    /\ clients' = [clients EXCEPT ![c] =
                     Client(IF Head(inbox[c]).kind = "initial" THEN "connected" ELSE @.phase,
                            IF Head(inbox[c]).kind = "initial"
                            THEN Head(inbox[c]).state ELSE @.state,
                            @.heard \/ Head(inbox[c]).kind = "event")]
    /\ state' = state
    /\ fired' = <<>>
    /\ lastCall' = NoCall
    /\ UNCHANGED <<cfg, parsed, url, initPc, availableUpdate, cycles, applying, children,
                   mutexActive, polls, cache, timer, quit, installs, handlers,
                   subscribed>>

\* the listener of onStateChange and the continuation of _getInitialState
\* both assign this.state
ClientReceive(c) ==
    /\ inbox[c] # <<>>
    /\ inbox' = [inbox EXCEPT ![c] = Tail(@)]
    /\ clients' = [clients EXCEPT ![c] =
                     Client(IF Head(inbox[c]).kind = "initial" THEN "connected" ELSE @.phase,
                            Head(inbox[c]).state,
                            @.heard \/ Head(inbox[c]).kind = "event")]
    /\ state' = state
    /\ fired' = <<>>
    /\ lastCall' = NoCall
    /\ UNCHANGED <<cfg, parsed, url, initPc, availableUpdate, cycles, applying, children,
                   mutexActive, polls, cache, timer, quit, installs, handlers,
                   subscribed>>

\* the commands UpdateChannelClient sends, and the argument it sends with each
Commands == { "checkForUpdates", "downloadUpdate", "applyUpdate", "quitAndInstall",
              "isLatestVersion", "_applySpecificUpdate" }

ClientArgs(command) ==
    IF command = "checkForUpdates" THEN {<<TRUE>>, <<FALSE>>}
    ELSE IF command = "_applySpecificUpdate" THEN {<<ExternalPackage>>}
    ELSE {<<>>}

\* faulty variant: the channel calls checkForUpdates without its argument
UpdateChannelCallDropsArg(command, arg) ==
    CASE command = "checkForUpdates" -> CallCheckForUpdates(FALSE)
      [] command = "downloadUpdate" -> CallDownloadUpdate
      [] command = "applyUpdate" -> CallApplyUpdate
      [] command = "quitAndInstall" -> CallQuitAndInstall
      [] command = "isLatestVersion" ->
            \E answer \in LatestAnswers : CallIsLatestVersion(answer)
      [] command = "_applySpecificUpdate" -> CallApplySpecificUpdate

\* UpdateChannel.call(_, command, arg): the switch over the commands, each
\* case returning the promise of the service's method
UpdateChannelCall(command, arg) ==
    CASE command = "checkForUpdates" -> CallCheckForUpdates(arg[1])
      [] command = "downloadUpdate" -> CallDownloadUpdate
      [] command = "applyUpdate" -> CallApplyUpdate
      [] command = "quitAndInstall" -> CallQuitAndInstall
      [] command = "isLatestVersion" ->
            \E answer \in LatestAnswers : CallIsLatestVersion(answer)
      [] command = "_applySpecificUpdate" -> CallApplySpecificUpdate

\* a method of UpdateChannelClient: this.channel.call(command, arg)
ClientCalls(c, command, arg) ==
    /\ clients[c].phase # "absent"
    /\ UpdateChannelCall(command, arg)

BridgeInit == Init /\ cfg \in BridgeConfigs /\ cache = {}

BridgeNext ==
    \/ Next
    \/ \E c \in Clients : \E command \in Commands : \E arg \in ClientArgs(command) :
          ClientCalls(c, command, arg)
    \/ \E c \in Clients : ClientConnect(c)
    \/ \E c \in Clients : ServerListen(c)
    \/ \E c \in Clients : ServerGetInitialState(c)
    \/ \E c \in Clients : ClientReceive(c)

BridgeSpec == BridgeInit /\ [][BridgeNext]_vars

(***************************************************************************)
(* The parser on its own.  parseGitHubReleaseToUpdate is a pure function:  *)
(* its calls are explored over the bounded inputs while the service rests  *)
(* in its initial state.                                                   *)
(***************************************************************************)
\* the configuration the parser is explored with: the macOS build on the
\* GitHub feed
ParserConfigs == { c \in BridgeConfigs : c.platform = "darwin" }

ParserInputs ==
    { ParseCall(release, platform, target, currentVersion, "none", NoAsset, NoUpdate) :
        release \in ParserReleases, platform \in ParserPlatforms,
        target \in ParserTargets, currentVersion \in Versions }

\* parseGitHubReleaseToUpdate(release, platform, productService)
ParseGated ==
    /\ parsed' = [parsed EXCEPT
            !.variant = "gated",
            !.asset = findAssetForPlatform(parsed.release.assets, parsed.platform,
                                           parsed.target),
            !.update = parseGitHubReleaseToUpdate(parsed.release, parsed.platform,
                                                  parsed.target, parsed.currentVersion)]
    /\ UNCHANGED <<cfg, state, url, initPc, availableUpdate, cycles, applying, children,
                   mutexActive, polls, cache, timer, quit, installs, handlers, clients,
                   subscribed, inbox, fired, lastCall>>

\* the same call on the variant without the version gate
ParseUngated ==
    /\ parsed' = [parsed EXCEPT
            !.variant = "ungated",
            !.asset = findAssetForPlatform(parsed.release.assets, parsed.platform,
                                           parsed.target),
            !.update = parseGitHubReleaseToUpdateUngated(parsed.release, parsed.platform,
                                                         parsed.target)]
    /\ UNCHANGED <<cfg, state, url, initPc, availableUpdate, cycles, applying, children,
                   mutexActive, polls, cache, timer, quit, installs, handlers, clients,
                   subscribed, inbox, fired, lastCall>>

ParserInit == ServiceInit /\ cfg \in ParserConfigs /\ parsed \in ParserInputs

ParserNext ==
    \/ ParseGated
    \/ ParseUngated

ParserSpec == ParserInit /\ [][ParserNext]_vars

(***************************************************************************)
(* Properties of the update service                                        *)
(***************************************************************************)

\* C1: checkForUpdates, called by a caller or by the timer in a state other
\* than Idle, leaves the state as it is, fires no notification and
\* dispatches no feed request: the cycles in flight stay as they are.
C1_CheckOutsideIdleIsNoOp ==
    [][ /\ state.type # "Idle"
        /\ \/ TimerFires
           \/ \E explicit \in BOOLEAN : CallCheckForUpdates(explicit)
        => /\ state' = state
           /\ fired' = <<>>
           /\ cycles' = cycles ]_vars

\* checkForUpdates has just been called while a download was in progress
C1_Witness ==
    /\ lastCall.op = "checkForUpdates"
    /\ state.type = "Downloading"
    /\ InFlight # {}
    /\ fired = <<>>

\* C2 as stated: the step that completes initialize() sets the state of
\* the first condition that applies in the order environment, missing
\* configuration, update mode 'none', feed URL that fails to build, and last
\* running as admin for a Windows user install; Idle when none applies.
C2_StatedOrder ==
    [][ initPc # "done" /\ initPc' = "done"
        => state' =
             IF cfg.disableUpdates THEN Disabled("DisabledByEnvironment")
             ELSE IF cfg.updateUrl = "none" \/ ~cfg.commit
             THEN Disabled("MissingConfiguration")
             ELSE IF cfg.updateMode = "none" THEN Disabled("ManuallyDisabled")
             ELSE IF cfg.platform = "darwin" /\ ~cfg.feedOk
             THEN Disabled("InvalidConfiguration")
             ELSE IF cfg.platform = "win32" /\ cfg.target = "user" /\ cfg.isAdmin
             THEN Disabled("RunningAsAdmin")
             ELSE Idle(cfg.updateType, "none") ]_vars

\* C2, amended: on a Windows user install running as admin the step that
\* completes initialize() sets Disabled(RunningAsAdmin) whatever else
\* applies; otherwise it sets the state of the first condition that applies
\* in the order environment, missing configuration, update mode 'none',
\* feed URL that fails to build; Idle when none applies.
C2_AdminFirstThenStatedOrder ==
    [][ initPc # "done" /\ initPc' = "done"
        => state' =
             IF cfg.platform = "win32" /\ cfg.target = "user" /\ cfg.isAdmin
             THEN Disabled("RunningAsAdmin")
             ELSE IF cfg.disableUpdates THEN Disabled("DisabledByEnvironment")
             ELSE IF cfg.updateUrl = "none" \/ ~cfg.commit
             THEN Disabled("MissingConfiguration")
             ELSE IF cfg.updateMode = "none" THEN Disabled("ManuallyDisabled")
             ELSE IF cfg.platform = "darwin" /\ ~cfg.feedOk
             THEN Disabled("InvalidConfiguration")
             ELSE Idle(cfg.updateType, "none") ]_vars

\* initialize() has run where the environment disables updates, the
\* configuration is missing and the user install runs as admin
C2_Witness ==
    /\ initPc = "done"
    /\ cfg.platform = "win32" /\ cfg.target = "user" /\ cfg.isAdmin
    /\ cfg.disableUpdates /\ ~cfg.commit
    /\ state = Disabled("RunningAsAdmin")

\* C3: a background check (explicit = false) that ends in Idle ends there
\* without a message, on Windows and on macOS.
C3_BackgroundFailureIsSilent ==
    [][ \A k \in Slots :
          /\ cycles[k] # NoCycle
          /\ ~cycles[k].explicit
          /\ cycles'[k] = NoCycle
          /\ state'.type = "Idle"
          => state'.error = "none" ]_vars

\* the artifact of cycle k is in its .tmp file and its digest is not the
\* hash of the update descriptor
ChecksumMismatch(k) ==
    /\ cycles[k].phase = "verify"
    /\ cycles[k].update.sha256hash # Undefined
    /\ Exists(cache, DownloadPath(cycles[k].update.version))
    /\ DigestOf(cache, DownloadPath(cycles[k].update.version)) # cycles[k].update.sha256hash

\* C4: when the downloaded artifact's digest is not the hash the update
\* descriptor carries, the step that verifies it ends the cycle in Idle:
\* neither Downloaded nor Ready is set, no availableUpdate is recorded and
\* the artifact is not moved to the package path.
C4_ChecksumMismatchFails ==
    [][ \A k \in Slots :
          ChecksumMismatch(k) /\ Win32Verify(k)
          => /\ state'.type = "Idle"
             /\ cycles'[k] = NoCycle
             /\ \A i \in 1..Len(fired') : fired'[i].type \notin {"Downloaded", "Ready"}
             /\ availableUpdate' = availableUpdate
             /\ ~Exists(cache', PackagePath(cycles[k].update.version)) ]_vars

\* a verification has just failed on an artifact whose digest is h2, where
\* the feed's hash is h1
C4_Witness ==
    /\ state.type = "Idle"
    /\ fired = <<state>>
    /\ InFlight = {}
    /\ availableUpdate = NoAvailableUpdate
    /\ \E e \in cache : e.path.kind = "tmp" /\ e.digest = <<"h2">>

\* C5: when the download or the verification of cycle k fails, the step
\* that ends the cycle leaves no .tmp file of that version in the cache.
C5_PartialFileRemoved ==
    [][ \A k \in Slots :
          /\ cycles[k].phase \in {"download", "verify"}
          /\ cycles'[k] = NoCycle
          => ~Exists(cache', DownloadPath(cycles[k].update.version)) ]_vars

\* C6: while a check cycle the timer started is in flight, the timer of the
\* next automatic check is not running.
C6_RescheduledAfterCycle ==
    timer = "recurring" => \A k \in Slots : ~(cycles[k] # NoCycle /\ cycles[k].byTimer)

\* C7: at most one check cycle is in flight.
C7_CyclesNeverOverlap == Cardinality(InFlight) <= 1

\* C8: no step changes a Disabled state.
C8_DisabledIsTerminal == [][ state.type = "Disabled" => state' = state ]_vars

\* C9: once the channel has served a client's _getInitialState, the last
\* state on its way to the client, or the client's state when nothing is on
\* its way, is the current state of the service: the answer carries the
\* current state and needs no further transition.  And what a client holds
\* is at all times one of the states of the union, never an undefined one.
C9_LateClientGetsCurrentState ==
    \A c \in Clients :
        /\ clients[c].state.type \in StateTypes
        /\ clients[c].phase \in {"served", "connected"}
           => IF inbox[c] # <<>>
              THEN inbox[c][Len(inbox[c])].state = state
              ELSE clients[c].phase = "connected" /\ clients[c].state = state

\* a client that connected when an update was ready holds Ready from the
\* answer alone: no event has reached it
C9_Witness ==
    \E c \in Clients :
        /\ clients[c].phase = "connected"
        /\ ~clients[c].heard
        /\ inbox[c] = <<>>
        /\ state.type = "Ready"
        /\ clients[c].state = state

\* C10: quitAndInstall called in a state other than Ready asks for no quit,
\* runs no install action and leaves the state as it is.
C10_QuitOutsideReadyIsNoOp ==
    [][ state.type # "Ready" /\ CallQuitAndInstall
        => /\ quit' = quit
           /\ installs' = installs
           /\ state' = state
           /\ fired' = <<>> ]_vars

\* quitAndInstall has just been called with an update downloaded, not ready
C10_Witness ==
    /\ lastCall.op = "quitAndInstall"
    /\ state.type = "Downloaded"
    /\ quit = "none"
    /\ ~installs

\* C11: when the shutdown asked for by quitAndInstall is vetoed, the install
\* action is not run and the state stays as it was (Ready); the install
\* action runs only in the step in which the shutdown completes unvetoed.
C11_InstallOnlyWithoutVeto ==
    [][ /\ QuitResolves(TRUE) => installs' = installs /\ cache' = cache
                                 /\ state' = state /\ fired' = <<>>
        /\ installs' # installs => quit = "pending" /\ quit' = "quitting" ]_vars

\* a shutdown asked for in Ready has been vetoed: still Ready, nothing installed
C11_Witness ==
    /\ quit = "vetoed"
    /\ state.type = "Ready"
    /\ ~installs

\* C12: downloadUpdate called in a state other than AvailableForDownload
\* leaves the state as it is, fires nothing and starts no download.
C12_DownloadOutsideAvailableIsNoOp ==
    [][ state.type # "AvailableForDownload" /\ CallDownloadUpdate
        => /\ state' = state
           /\ fired' = <<>>
           /\ cycles' = cycles
           /\ cache' = cache ]_vars

\* downloadUpdate has just been called while an update was already downloaded
C12_Witness ==
    /\ lastCall.op = "downloadUpdate"
    /\ state.type = "Downloaded"
    /\ fired = <<>>

\* C13: applyUpdate called in a state other than Downloaded leaves the state
\* as it is, starts no installer run and writes no flag file.
C13_ApplyOutsideDownloadedIsNoOp ==
    [][ state.type # "Downloaded" /\ CallApplyUpdate
        => /\ state' = state
           /\ fired' = <<>>
           /\ applying' = applying
           /\ children' = children
           /\ cache' = cache
           /\ availableUpdate' = availableUpdate ]_vars

\* applyUpdate has just been called on Windows with the update already Ready
C13_Witness ==
    /\ lastCall.op = "applyUpdate"
    /\ cfg.platform = "win32"
    /\ state.type = "Ready"
    /\ availableUpdate # NoAvailableUpdate
    /\ applying = {}
    /\ fired = <<>>

\* C14: the state never changes without a notification, and the last state
\* notified in a step is the state the machine is in after the step: every
\* setState fires one event that carries the new state.
C14_EveryTransitionNotified ==
    [][ /\ state' # state => fired' # <<>>
        /\ fired' # <<>> => fired'[Len(fired')] = state' ]_vars

\* a handler has just made two transitions, each notified, the last one current
C14_Witness ==
    /\ Len(fired) = 2
    /\ fired[1].type = "Downloaded"
    /\ fired[2].type = "Updating"
    /\ fired[2] = state

\* initialize() has run and has set Idle
InitializedIdle ==
    /\ initPc = "done"
    /\ initializeState(cfg).type = "Idle"
    /\ ~(cfg.platform = "win32" /\ cfg.target = "user" /\ cfg.isAdmin)

\* C15: once initialize() has set Idle, mode 'manual' has no timer and no
\* automatic check is ever started; mode 'start' has one timer that requests
\* one non-explicit check and is never armed again; mode 'default' has a timer
\* that requests a non-explicit check and is armed again every time it fires.
C15_ModeDecidesAutomaticChecks ==
    /\ [](InitializedIdle =>
            /\ cfg.updateMode = "manual" =>
                   timer = "none" /\ \A k \in Slots : ~cycles[k].byTimer
            /\ cfg.updateMode = "start" => timer \in {"once", "none"}
            /\ cfg.updateMode = "default" => timer = "recurring")
    /\ [][ InitializedIdle =>
            /\ timer = "none" => timer' = "none"
            /\ TimerFires =>
                  /\ cfg.updateMode = "start" => timer = "once" /\ timer' = "none"
                  /\ \A k \in Slots : cycles'[k] # cycles[k] =>
                        cycles'[k].byTimer /\ ~cycles'[k].explicit ]_vars

\* mode 'start': the one automatic check has been started and no timer is left
C15_Witness ==
    /\ InitializedIdle
    /\ cfg.updateMode = "start"
    /\ timer = "none"
    /\ \E k \in Slots : cycles[k].byTimer /\ ~cycles[k].explicit

\* a step in which the feed request, the parse, the download or the
\* verification of cycle k fails
CheckFails(k) ==
    \/ Win32FeedFails(k)
    \/ \E written \in BOOLEAN : Win32DownloadFails(k, written)
    \/ ChecksumMismatch(k) /\ Win32Verify(k)
    \/ DarwinFeedFails(k)

\* C16: every call of checkForUpdates resolves, and a failure of the feed
\* request, the parse, the download or the verification is no outcome of a
\* call: it shows as one transition to Idle, fired by the failing step.
C16_CheckFailuresAreTransitions ==
    [][ /\ lastCall'.op = "checkForUpdates" => lastCall'.result = "void"
        /\ \A k \in Slots :
              CheckFails(k) => /\ lastCall' = NoCall
                               /\ state'.type = "Idle"
                               /\ fired' = <<state'>>
                               /\ cycles'[k] = NoCycle ]_vars

\* the feed request of an explicit check on Windows has just failed
C16_Witness ==
    /\ cfg.platform = "win32"
    /\ state.type = "Idle"
    /\ state.error = "err"
    /\ fired = <<state>>
    /\ lastCall = NoCall
    /\ InFlight = {}
    /\ cache = {}

\* C17: a call of isLatestVersion, whatever the feed answers, leaves the
\* state as it is and fires no state-change event.
C17_IsLatestVersionKeepsState ==
    [][ lastCall'.op = "isLatestVersion"
        => /\ state' = state
           /\ fired' = <<>>
           /\ cycles' = cycles
           /\ availableUpdate' = availableUpdate ]_vars

\* isLatestVersion has just answered "update available" with the machine Idle
C17_Witness ==
    /\ lastCall = Call("isLatestVersion", "false")
    /\ state.type = "Idle"
    /\ fired = <<>>

\* the answer cannot be used: the request failed, the body is not JSON, or
\* the release's version is no semantic version
Unusable(answer) ==
    \/ answer[1]
    \/ answer[2]
    \/ /\ isGitHub(cfg)
       /\ ~SemverValid(IF startsWith(answer[3].tag_name, <<"v">>)
                       THEN substring1(answer[3].tag_name) ELSE answer[3].tag_name)

\* C18: isLatestVersion answers undefined, never true or false, whenever the
\* request fails, the body cannot be parsed or the version cannot be
\* compared, on the vendor feed and on the GitHub feed.
C18_UnusableAnswerIsUndefined ==
    [][ \A answer \in LatestAnswers :
          Unusable(answer) /\ CallIsLatestVersion(answer)
          => lastCall'.result = "undefined" ]_vars

\* the operation `command` called on the service itself
DirectCall(command, arg) ==
    \/ command = "checkForUpdates" /\ CallCheckForUpdates(arg[1])
    \/ command = "downloadUpdate" /\ CallDownloadUpdate
    \/ command = "applyUpdate" /\ CallApplyUpdate
    \/ command = "quitAndInstall" /\ CallQuitAndInstall
    \/ command = "isLatestVersion" /\ \E answer \in LatestAnswers : CallIsLatestVersion(answer)
    \/ command = "_applySpecificUpdate" /\ CallApplySpecificUpdate

SetsDownloaded ==
    /\ cfg.platform = "win32"
    /\ getUpdateType(cfg) = "setup"
    /\ \E i \in 1..Len(fired') : fired'[i].type = "Downloaded"

\* C20: on a setup platform the step that sets Downloaded goes on to apply
\* the update if fast updates are enabled; if they are not it ends in
\* Downloaded, and Downloaded is then left for Updating or Ready only by a
\* call of applyUpdate.
C20_WaitsForApplyWithoutFastUpdates ==
    [][ /\ SetsDownloaded =>
              IF cfg.fastUpdates THEN state'.type = "Updating"
                                 ELSE state'.type = "Downloaded"
        /\ /\ cfg.platform = "win32" /\ ~cfg.fastUpdates
           /\ state.type = "Downloaded" /\ state'.type \in {"Updating", "Ready"}
           => CallApplyUpdate ]_vars

\* C20 as the code has it: the step that sets Downloaded goes on to Updating
\* if fast updates are enabled and the install is a user install, rests in
\* Downloaded if they are enabled and it is a system install (only
\* applyUpdate leaves it for Updating), and goes on to Ready, without
\* running the installer, if fast updates are not enabled.
C20_ReadyWithoutFastUpdates ==
    [][ /\ SetsDownloaded =>
              IF cfg.fastUpdates
              THEN IF cfg.target = "user"
                   THEN state'.type = "Updating" /\ state'.update \in applying'
                   ELSE state'.type = "Downloaded" /\ applying' = applying
              ELSE /\ state'.type = "Ready"
                   /\ applying' = applying
                   /\ children' = children
        /\ /\ cfg.platform = "win32"
           /\ state.type = "Downloaded" /\ state'.type \in {"Updating", "Ready"}
           => cfg.fastUpdates /\ CallApplyUpdate ]_vars

\* without fast updates a download has just ended: Downloaded and Ready were
\* set in the same step, no applyUpdate was called, no installer was started
C20_Witness ==
    /\ cfg.platform = "win32"
    /\ getUpdateType(cfg) = "setup"
    /\ ~cfg.fastUpdates
    /\ Len(fired) = 2
    /\ fired[1].type = "Downloaded"
    /\ state = Ready(fired[1].update)
    /\ fired[2] = state
    /\ availableUpdate.packagePath = PackagePath(state.update.version)
    /\ applying = {}

\* C21: an apply started from Downloaded sets Updating first; Ready is set
\* for an update only from Updating of that update and with the installer's
\* readiness signal observed; no step goes from Ready to Updating.
C21_UpdatingThenReadyOnSignal ==
    [][ /\ /\ cfg.platform = "win32" /\ state.type = "Downloaded"
           /\ CallApplyUpdate /\ state' # state
           => state' = Updating(state.update)
        /\ \A update \in polls :
              Win32PollUntil(update) => mutexActive /\ state = Updating(update)
        /\ state.type = "Ready" => state'.type # "Updating" ]_vars

\* C22: when the installer exits the state goes back to Idle; on Windows the
\* state leaves Idle only by a new request (a check, by call or by timer, or
\* _applySpecificUpdate); and the apply that failed causes no transition
\* later on: a poll sets Ready only for the update being applied.
C22_FailedApplyEndsInIdle ==
    [][ /\ Win32ChildExit => state'.type = "Idle" /\ availableUpdate' = NoAvailableUpdate
        /\ /\ cfg.platform = "win32" /\ initPc = "done"
           /\ state.type = "Idle" /\ state'.type # "Idle"
           => \/ TimerFires
              \/ lastCall'.op \in {"checkForUpdates", "_applySpecificUpdate"}
        /\ \A update \in polls :
              Win32PollUntil(update) => state.type = "Updating" /\ state.update = update ]_vars

\* C23: downloadUpdate called in AvailableForDownload makes the state leave
\* AvailableForDownload, whichever platform driver is running.
C23_DownloadLeavesAvailable ==
    [][ state.type = "AvailableForDownload" /\ CallDownloadUpdate
        => state'.type # "AvailableForDownload" /\ fired' # <<>> ]_vars

(***************************************************************************)
(* Properties of the parser (ParserSpec)                                   *)
(***************************************************************************)
\* the parser has been called on the inputs of parsed
Parsed == parsed.variant # "none"

\* the release lists an asset the platform rules select
HasMatchingAsset == parsed.asset # NoAsset

\* the version of the release is strictly newer than the running version
StrictlyNewer ==
    LET tag == parsed.release.tag_name
        version == IF tag[1] = "v" THEN SubSeq(tag, 2, Len(tag)) ELSE tag
    IN  /\ SemverValid(version) /\ SemverValid(parsed.currentVersion)
        /\ SemverNumber(version) > SemverNumber(parsed.currentVersion)

\* the descriptor the release and the selected asset stand for
DescribesRelease ==
    LET tag == parsed.release.tag_name
        update == parsed.update
    IN  /\ update # NoUpdate
        /\ update.version = tag
        /\ tag \in { update.productVersion, <<"v">> \o update.productVersion }
        /\ tag[1] = "v" => tag = <<"v">> \o update.productVersion
        /\ update.url = parsed.asset.browser_download_url
        /\ parsed.asset.digest \in { update.sha256hash, <<"sha256:">> \o update.sha256hash }
        /\ \A i \in 1..Len(update.sha256hash) : update.sha256hash[i] # "sha256:"

C25_PrereleaseIsNull ==
    Parsed /\ parsed.release.prerelease
    => parsed.update = NoUpdate /\ ~Actionable(parsed.update)

\* a prerelease that is newer and lists an asset for the platform
C25_Witness ==
    /\ parsed.variant = "gated" /\ parsed.release.prerelease
    /\ HasMatchingAsset /\ StrictlyNewer
    /\ parsed.update = NoUpdate

\* the descriptor has a download URL, a version and a product version
HasAllThree(update) ==
    /\ update.url # <<>>
    /\ update.version # <<>>
    /\ update.productVersion # <<>>

\* what the step that handles the feed's answer does with the descriptor
ActsOnlyIfActionable(update) ==
    /\ ~HasAllThree(update) => state'.type = "Idle"
    /\ state'.type \in {"AvailableForDownload", "Downloading"} => HasAllThree(update)
    /\ state'.type = "AvailableForDownload" => state'.update = update

\* C29: a check acts on a descriptor only if it is actionable: when the
\* feed yields no descriptor, or one without url, version or product
\* version, the check ends in Idle, and a check enters AvailableForDownload
\* or Downloading only with a descriptor that has all three.
C29_ChecksActOnActionableOnly ==
    [][ /\ \A k \in Slots :
              /\ \A response \in Win32Responses :
                     Win32FeedAnswers(k, response)
                     => ActsOnlyIfActionable(Win32Update(response))
              /\ \A response \in GitHubResponses :
                     DarwinFeedAnswers(k, response)
                     => ActsOnlyIfActionable(
                            parseGitHubReleaseToUpdate(response, platformOf(cfg),
                                                       cfg.target, CurrentVersion))
        /\ state.type # "AvailableForDownload" /\ state'.type = "AvailableForDownload"
           => HasAllThree(state'.update) ]_vars

\* a check of an archive install has offered a descriptor with all three
C29_Witness ==
    /\ state.type = "AvailableForDownload"
    /\ HasAllThree(state.update)
    /\ \A k \in Slots : cycles[k] = NoCycle

FirstIndex(indices) == CHOOSE i \in indices : \A j \in indices : i <= j

\* the name of the setup of the install target, and the marker a name may contain
SetupName == IF parsed.target = "user" THEN <<"SIID", "UserSetup", ".exe">>
                                       ELSE <<"SIID", "SystemSetup", ".exe">>
SetupMarker == IF parsed.target = "user" THEN <<"UserSetup", ".exe">>
                                         ELSE <<"SystemSetup", ".exe">>

\* the order of preference on Windows: the first asset of the exact name,
\* else the first whose name contains the marker, else the first .exe
WindowsPreferenceOrder ==
    LET assets == parsed.release.assets
        exact == { i \in 1..Len(assets) : assets[i].name = SetupName }
        marked == { i \in 1..Len(assets) : includes(assets[i].name, SetupMarker) }
        exe == { i \in 1..Len(assets) : endsWith(assets[i].name, <<".exe">>) }
    IN  IF exact # {} THEN parsed.asset = assets[FirstIndex(exact)]
        ELSE IF marked # {} THEN parsed.asset = assets[FirstIndex(marked)]
        ELSE IF exe # {} THEN parsed.asset = assets[FirstIndex(exe)]
        ELSE parsed.asset = NoAsset

\* C27: on Windows the asset is selected in a strict order of preference,
\* ties broken by first occurrence: the exact setup name of the target, then
\* a name containing the setup marker, then the first .exe; and an asset
\* whose name ends in .sha256 is never selected.
C27_WindowsSelection ==
    Parsed /\ parsed.platform[1] = "win32"
    => /\ WindowsPreferenceOrder
       /\ ~endsWith(parsed.asset.name, <<".sha256">>)

\* the indices of the assets whose name ends in suffix
EndingIn(suffix) ==
    { i \in 1..Len(parsed.release.assets) :
        endsWith(parsed.release.assets[i].name, suffix) }

\* the first asset whose name ends in suffix is selected, none if there is none
FirstEndingIn(suffix) ==
    IF EndingIn(suffix) # {}
    THEN parsed.asset = parsed.release.assets[FirstIndex(EndingIn(suffix))]
    ELSE parsed.asset = NoAsset

\* C28: on Linux the first asset ending in .tar.gz is selected, on macOS the
\* first ending in .dmg; on any other platform, for an empty list of assets
\* and when no asset matches the rule of the platform nothing is selected,
\* and when nothing is selected the parser returns null.
C28_ArchiveSelection ==
    Parsed
    => /\ parsed.platform[1] = "linux" => FirstEndingIn(<<".tar", ".gz">>)
       /\ parsed.platform[1] = "darwin" => FirstEndingIn(<<".dmg">>)
       /\ parsed.platform[1] \notin {"win32", "linux", "darwin"} => parsed.asset = NoAsset
       /\ parsed.release.assets = <<>> => parsed.asset = NoAsset
       /\ /\ parsed.platform[1] = "win32"
          /\ \A i \in 1..Len(parsed.release.assets) :
                /\ ~endsWith(parsed.release.assets[i].name, <<".exe">>)
                /\ ~includes(parsed.release.assets[i].name, SetupMarker)
          => parsed.asset = NoAsset
       /\ parsed.asset = NoAsset => parsed.update = NoUpdate

\* two archives for Linux in one release, the first of them selected
C28_Witness ==
    /\ Parsed /\ parsed.platform[1] = "linux"
    /\ EndingIn(<<".tar", ".gz">>) = {1, 2}
    /\ parsed.release.assets[1] # parsed.release.assets[2]
    /\ parsed.asset = parsed.release.assets[1]

\* check cycle k is past the feed's answer, in the download the check started
InDownload(k) == cycles[k].phase \in {"cleanup", "download", "verify", "finish"}

\* the step of an archive install that handles an actionable answer
OffersWithoutDownload(k, update) ==
    /\ state.type = "CheckingForUpdates"
    /\ state' = AvailableForDownload(update)
    /\ cycles'[k] = NoCycle
    /\ cache' = cache

\* the step of a setup install that handles an actionable answer
StartsDownload(k, update) ==
    /\ state.type = "CheckingForUpdates"
    /\ state' = Downloading
    /\ InDownload(k)' /\ cycles'[k].update = update

\* C30: a check that finds an actionable update goes on by update kind: on
\* an archive install the state goes from CheckingForUpdates to
\* AvailableForDownload and the check starts no download; on a setup install
\* the check starts the download itself, the state goes from
\* CheckingForUpdates to Downloading and from there to Downloaded (or to Idle
\* when the download fails) and never is AvailableForDownload.
C30_CheckProceedsByUpdateKind ==
    [][ /\ \A k \in Slots :
              /\ \A response \in Win32Responses :
                     Win32FeedAnswers(k, response) /\ HasAllThree(Win32Update(response))
                     => IF cfg.updateType = "archive"
                        THEN OffersWithoutDownload(k, Win32Update(response))
                        ELSE StartsDownload(k, Win32Update(response))
              /\ \A response \in GitHubResponses :
                     LET update == parseGitHubReleaseToUpdate(response, platformOf(cfg),
                                                              cfg.target, CurrentVersion)
                     IN  DarwinFeedAnswers(k, response) /\ HasAllThree(update)
                         => OffersWithoutDownload(k, update)
              /\ InDownload(k) /\ fired' # <<>>
                 => /\ state = Downloading
                    /\ fired'[1] = Downloaded(cycles[k].update) \/ fired'[1].type = "Idle"
        /\ cfg.updateType = "setup" => state'.type # "AvailableForDownload" ]_vars

(***************************************************************************)
(* Further properties of the update service                                *)
(***************************************************************************)
\* the descriptor _applySpecificUpdate makes up for the package
SideloadedUpdate == IUpdate(<<"unknown">>, <<"unknown">>, <<>>, <<>>)

\* the step is a call that changes nothing the service owns
CallIsNoOp ==
    /\ state' = state /\ fired' = <<>>
    /\ availableUpdate' = availableUpdate /\ applying' = applying
    /\ cycles' = cycles /\ cache' = cache /\ children' = children /\ polls' = polls

\* what a call of _applySpecificUpdate does in state Idle
Sideloads ==
    /\ cycles' = cycles
    /\ availableUpdate'.packagePath = ExternalPackage
    /\ Len(fired') >= 2
    /\ fired'[1] = Downloading /\ fired'[2] = Downloaded(SideloadedUpdate)
    /\ ~cfg.fastUpdates
       => fired' = <<Downloading, Downloaded(SideloadedUpdate), Ready(SideloadedUpdate)>>
    /\ cfg.fastUpdates /\ cfg.target = "user"
       => /\ fired' = <<Downloading, Downloaded(SideloadedUpdate), Updating(SideloadedUpdate)>>
          /\ SideloadedUpdate \in applying'

\* C31 as stated: _applySpecificUpdate sends no feed request and is a no-op
\* unless the state is Idle; from Idle it records the package as the
\* available update and sets Downloading, then Downloaded, then Ready when
\* fast updates are disabled, or starts the apply when they are enabled and
\* the install target is user.
C31_SideloadsFromIdle ==
    [][ lastCall'.op = "_applySpecificUpdate"
        => IF state.type # "Idle" THEN CallIsNoOp ELSE Sideloads ]_vars

\* C31, amended: this is what the call does on Windows; on macOS the call
\* is a no-op in every state.
C31_SideloadsFromIdleOnWindows ==
    [][ lastCall'.op = "_applySpecificUpdate"
        => IF state.type # "Idle" \/ cfg.platform # "win32"
           THEN CallIsNoOp ELSE Sideloads ]_vars

\* a package was sideloaded with fast updates disabled
C31_Witness ==
    /\ lastCall.op = "_applySpecificUpdate"
    /\ state = Ready(SideloadedUpdate)
    /\ availableUpdate.packagePath = ExternalPackage

\* the cache holds nothing but the artifact of version, as it was before
OnlyArtifactOf(version) ==
    /\ \A e \in cache' : e.path = File("exe", version) /\ e \in cache
    /\ \A e \in cache : e.path = File("exe", version) => e \in cache'

C33_ReadyHoldsAvailableUpdate ==
    cfg.platform = "win32" /\ state.type \in {"Downloaded", "Updating", "Ready"}
    => availableUpdate # NoAvailableUpdate /\ availableUpdate.packagePath # NoFile

\* the installer of a background update has signalled that it is ready
C33_Witness ==
    /\ cfg.platform = "win32" /\ state.type = "Ready"
    /\ children = 1 /\ mutexActive
    /\ availableUpdate.updateFilePath # NoFile

\* the state that preceded the i-th state set in this step
Preceding(i) == IF i = 1 THEN state ELSE fired'[i - 1]

\* C34: Ready is entered only from Downloaded or Updating, and with the
\* update of that preceding state; never from Idle, CheckingForUpdates,
\* AvailableForDownload, Downloading or Disabled.
C34_ReadyOnlyAfterDownloadedOrUpdating ==
    [][ \A i \in 1..Len(fired') :
           fired'[i].type = "Ready"
           => /\ Preceding(i).type \in {"Downloaded", "Updating"}
              /\ Preceding(i).update = fired'[i].update ]_vars
\* the calls of the service that return nothing
VoidCalls == { "checkForUpdates", "downloadUpdate", "applyUpdate", "quitAndInstall",
               "_applySpecificUpdate" }

\* C35: while the state is Uninitialized (initialize() has not completed,
\* the pending Windows admin check included) checkForUpdates,
\* downloadUpdate, applyUpdate, quitAndInstall and _applySpecificUpdate leave
\* the state unchanged and dispatch nothing, and isLatestVersion returns
\* undefined without sending a request.
C35_CallsBeforeInitializeAreNoOps ==
    [][ state.type = "Uninitialized"
        => /\ lastCall'.op \in VoidCalls
              => CallIsNoOp /\ quit' = quit /\ installs' = installs /\ timer' = timer
           /\ lastCall'.op = "isLatestVersion"
              => /\ lastCall'.result = "undefined"
                 /\ ~isLatestVersionRequests
                 /\ CallIsNoOp ]_vars

\* isLatestVersion has answered while the Windows admin check is pending
C35_Witness ==
    /\ state.type = "Uninitialized"
    /\ initPc = "admin"
    /\ cfg.updateMode = "none"
    /\ lastCall = Call("isLatestVersion", "undefined")
\* the messages a step has put on the way to client c
Sent(c) == SubSeq(inbox'[c], Len(inbox[c]) + 1, Len(inbox'[c]))

\* the step delivers the message at the head of the way to client c
Delivers(c) ==
    /\ inbox[c] # <<>>
    /\ inbox'[c] = Tail(inbox[c])
    /\ clients'[c].state = Head(inbox[c]).state

\* C36: every state an UpdateChannelClient holds is Uninitialized or a
\* state the service held earlier.  Stated step by step: a message is put
\* on the way to a client only as the answer to _getInitialState, carrying
\* the state the service holds, or as the event of a setState, carrying the
\* state set; a client's state changes only by taking the message at the
\* head of what is on its way; and a call of checkForUpdates,
\* downloadUpdate, applyUpdate, quitAndInstall, isLatestVersion or
\* _applySpecificUpdate leaves every client's state as it was.
C36_ClientHoldsStatesOfTheService ==
    [][ \A c \in Clients :
          /\ clients[c].state.type = "Uninitialized" \/ clients[c].phase # "absent"
          /\ clients'[c].state # clients[c].state => Delivers(c)
          /\ ~Delivers(c)
             => /\ Len(inbox'[c]) >= Len(inbox[c])
                /\ SubSeq(inbox'[c], 1, Len(inbox[c])) = inbox[c]
                /\ \A i \in 1..Len(Sent(c)) :
                      \/ /\ Sent(c)[i].kind = "event"
                         /\ Sent(c) = [ j \in 1..Len(fired') |-> Message("event", fired'[j]) ]
                      \/ /\ Sent(c)[i].kind = "initial"
                         /\ Sent(c)[i].state = state
                         /\ state' = state
          /\ lastCall'.op \in Commands => clients'[c] = clients[c] ]_vars

\* a client that has called applyUpdate still holds Downloaded, which the
\* service has left for Updating: the event is on its way
C36_Witness ==
    \E c \in Clients :
        /\ lastCall.op = "applyUpdate"
        /\ clients[c].state.type = "Downloaded"
        /\ state.type = "Updating"
        /\ inbox[c] # <<>>
\* the newest state client c has been sent: the last message on its way,
\* or the state it holds when nothing is on its way
NewestSent(c) ==
    IF inbox[c] # <<>> THEN inbox[c][Len(inbox[c])].state ELSE clients[c].state

\* the step puts the answer to _getInitialState on the way to client c
Answers(c) == Sent(c) # <<>> /\ Sent(c)[1].kind = "initial"

\* C37: the client's state converges to the state of the service.  However
\* the client's subscription, its _getInitialState and the transitions of
\* the service interleave, a client whose answer has arrived and to whom
\* nothing is on its way holds the current state of the service; and the
\* answer never overwrites a newer state received through an event: when
\* the answer is sent, every event sent to the client before it carries a
\* state no newer than the answer's, the newest of them the same state.
C37_ClientConverges ==
    [][ \A c \in Clients :
          /\ clients'[c].phase = "connected" /\ inbox'[c] = <<>>
             => clients'[c].state = state'
          /\ Answers(c) /\ (inbox[c] # <<>> \/ clients[c].heard)
             => NewestSent(c) = Sent(c)[1].state ]_vars

\* an event has reached the client and the answer to _getInitialState is
\* the next message it takes
C37_Witness ==
    \E c \in Clients :
        /\ clients[c].phase = "served"
        /\ clients[c].heard
        /\ clients[c].state.type = "CheckingForUpdates"
        /\ inbox[c] # <<>>
        /\ Head(inbox[c]).kind = "initial"
\* C38: on Windows, for an update that carries a hash, a check reaches
\* Downloaded only if the artifact at the package path has the digest the
\* update's hash names, as a passed checksum verification establishes; also
\* when the package was found in the cache and not downloaded.
C38_DownloadedOnlyIfVerified ==
    [][ \A k \in Slots :
          Win32Finish(k) /\ hasHash(cycles[k].update)
          => checksum(cache, PackagePath(cycles[k].update.version),
                      cycles[k].update.sha256hash) ]_vars
\* the step sets no state
Ignored == state' = state /\ fired' = <<>>

\* C39: on macOS the events of the native updater are acted on only in the
\* matching state and otherwise leave the state unchanged: update-available
\* moves CheckingForUpdates to Downloading, update-not-available moves
\* CheckingForUpdates to Idle, update-downloaded moves Downloading to
\* Downloaded and then Ready; each is ignored in any other state.
C39_NativeEventsNeedTheirState ==
    [][ /\ onUpdateAvailable
           => IF state.type = "CheckingForUpdates"
              THEN fired' = <<Downloading>> /\ state' = Downloading
              ELSE Ignored
        /\ onUpdateNotAvailable
           => IF state.type = "CheckingForUpdates"
              THEN fired' = <<Idle("archive", "none")>> /\ state' = Idle("archive", "none")
              ELSE Ignored
        /\ \A update \in NativeUpdates :
              onUpdateDownloaded(update)
              => IF state.type = "Downloading"
                 THEN fired' = <<Downloaded(update), Ready(update)>> /\ state' = Ready(update)
                 ELSE Ignored ]_vars

\* the native updater has downloaded an update: Downloaded, then Ready
C39_Witness ==
    /\ cfg.platform = "darwin"
    /\ handlers
    /\ state.type = "Ready"
    /\ fired = <<Downloaded(state.update), Ready(state.update)>>
\* C40: handleRelaunch runs the install action only when an update is
\* pending.  It returns false and does nothing when the relaunch adds or
\* removes arguments or when the state is not Ready (on Windows also when
\* no availableUpdate is held); it returns true exactly when it has run the
\* install action; and it never changes the state.
C40_RelaunchInstallsOnlyWhenPending ==
    [][ \A options \in RelaunchOptions :
          handleRelaunch(options)
          => /\ state' = state /\ fired' = <<>>
             /\ quit' = quit /\ availableUpdate' = availableUpdate
             /\ options.addArgs \/ options.removeArgs \/ ~RelaunchPending
                => /\ lastCall'.result = "false"
                   /\ installs' = installs /\ cache' = cache
             /\ lastCall'.result = "true"
                => installs' /\ ~(options.addArgs \/ options.removeArgs) /\ RelaunchPending
             /\ installs' # installs \/ cache' # cache => lastCall'.result = "true"
             /\ ~(options.addArgs \/ options.removeArgs) /\ RelaunchPending /\ ~UnlinkThrows
                => lastCall'.result = "true" /\ installs' ]_vars

\* a relaunch has found the update ready and run the install action
C40_Witness ==
    /\ lastCall = Call("handleRelaunch", "true")
    /\ installs
    /\ state.type = "Ready"
    /\ quit = "none"
=============================================================================
